---- MODULE Spec2Model ----
(***************************************************************************)
(* Model of the MCP installer's installation orchestrator                  *)
(* (src/src/core/server_manager.py), the Docker probe it consults          *)
(* (src/src/core/system_checker.py) and the IDE settings writer            *)
(* (src/src/core/vscode_config.py).                                        *)
(*                                                                         *)
(* One install_server call is a sequence of steps; each step is one        *)
(* blocking call (a subprocess, a settings-file write) together with the   *)
(* control flow up to the next blocking call.  The outcome of a blocking   *)
(* call is chosen by the environment:                                      *)
(*   "ok"       returncode == 0                                            *)
(*   "nonzero"  returncode != 0                                            *)
(*   "timeout"  subprocess.TimeoutExpired                                  *)
(*   "notfound" FileNotFoundError                                          *)
(*   "error"    any other Exception (OSError, PermissionError, ...)        *)
(* Python dicts are functions with a string domain; d.get(k, default) is   *)
(* Get(d, k, default).  Strings that the code takes apart (image names,    *)
(* probe messages) are sequences of tokens; messages are sequences whose   *)
(* first element is the fixed text and whose tail is the interpolation.    *)
(***************************************************************************)
EXTENDS Integers, Sequences, FiniteSets, TLC

\* ------------------------------------------------------- generic helpers
Outcomes == {"ok", "nonzero", "timeout", "notfound", "error"}
Raising == {"timeout", "notfound", "error"}
\* Outcomes told apart at a call site: FileNotFoundError has a handler of its
\* own only at the npm probe; a bare except treats every exception alike.
ProbeOutcomes == Outcomes
ExecOutcomes == {"ok", "nonzero", "timeout", "error"}
DockerProbeOutcomes == {"ok", "nonzero", "timeout"}
CleanupOutcomes == {"ok", "nonzero", "timeout"}

EmptyDict == <<>>
Get(d, k, default) == IF k \in DOMAIN d THEN d[k] ELSE default
Opt(k, S) == {EmptyDict} \cup { (k :> v) : v \in S }

Value(ok, msg) == [kind |-> "value", ok |-> ok, msg |-> msg]
Raise(exc) == [kind |-> "raise", ok |-> FALSE, msg |-> <<exc>>]
None == [kind |-> "none", ok |-> FALSE, msg |-> <<>>]

RunEvent(cmd, o) == [op |-> "run", cmd |-> cmd, out |-> o]
IdeEvent(ext, o) == [op |-> "ide", cmd |-> <<ext>>, out |-> o]
ProbeEvent(tool, o) == [op |-> "probe", cmd |-> <<tool>>, out |-> o]

\* ------------------------------------------------- the inputs (descriptors)
Names == {"Filesystem MCP Server"}
Packages == {"@modelcontextprotocol/server-filesystem"}
Repositories == {"https://example.org/mcp-server.git"}
Images ==
    { <<"mcp-", "filesystem", ":", "latest">>,
      <<"mcp-", "custom", ":", "latest">>,
      <<"mcp-", "filesystem">>,
      <<"nginx", ":", "latest">>,
      <<"mcr.microsoft.com/playwright/mcp">> }
Fallbacks == { ("type" :> "npm") @@ ("package" :> "@playwright/mcp") }
NpmConfigurations == { ("args" :> <<"C:/">>) }
DockerConfigurations == { ("run_mode" :> "interactive") }

\* Descriptors by declared type; each family varies the fields its backend
\* reads and carries a fallback or a foreign field now and then.
OtherDescriptors ==
    { t @@ p @@ i :
        t \in Opt("type", {"ruby"}), p \in Opt("package", Packages),
        i \in Opt("image", {<<"nginx", ":", "latest">>}) }
NpmDescriptors ==
    { ("type" :> "npm") @@ n @@ p @@ f @@ c :
        n \in Opt("name", Names), p \in Opt("package", Packages),
        f \in Opt("fallback", Fallbacks), c \in Opt("configuration", NpmConfigurations) }
GitDescriptors ==
    { ("type" :> "git") @@ n @@ r @@ f :
        n \in Opt("name", Names), r \in Opt("repository", Repositories),
        f \in Opt("fallback", Fallbacks) }
PythonDescriptors ==
    { ("type" :> "python") @@ p @@ r @@ f :
        p \in Opt("package", Packages), r \in Opt("repository", Repositories),
        f \in Opt("fallback", Fallbacks) }
DockerDescriptors ==
    { ("type" :> "docker") @@ ("name" :> "Filesystem MCP Server") @@ i @@ f @@ c :
        i \in Opt("image", Images), f \in Opt("fallback", Fallbacks),
        c \in Opt("configuration", DockerConfigurations) }
Descriptors ==
    OtherDescriptors \cup NpmDescriptors \cup GitDescriptors
        \cup PythonDescriptors \cup DockerDescriptors

\* ------------------------------------------------ IDE settings files
\* A settings file is absent, unparseable ("invalid"), the JSON value null,
\* a JSON value that is not an object ("nonobject"), or a JSON object whose
\* mcpServers key is missing, holds a non-object ("nonmap") or holds a map
\* from server names to entries; other says whether the object has further
\* top-level keys.
FileOf(kind, servers_kind, servers, other) ==
    [kind |-> kind, servers_kind |-> servers_kind, servers |-> servers, other |-> other]
AbsentFile == FileOf("absent", "missing", EmptyDict, FALSE)
InvalidFile == FileOf("invalid", "missing", EmptyDict, FALSE)
NonObjectFile == FileOf("nonobject", "missing", EmptyDict, FALSE)
BadServersFile == FileOf("object", "nonmap", EmptyDict, TRUE)
NoneConfig == FileOf("none", "missing", EmptyDict, FALSE)
FreshConfig == FileOf("object", "map", EmptyDict, FALSE)

\* The settings files an installation may find: none, or a Cline file
\* whose mcpServers is not an object.
InitialSettings ==
    { [e \in {"cline", "roo"} |-> AbsentFile],
      [e \in {"cline", "roo"} |-> IF e = "cline" THEN BadServersFile ELSE AbsentFile] }
SaveOutcomes == {"ok", "open_failed", "dump_failed"}

extension_configs == {"cline", "roo"}

get_extension_config(extension, file) ==
    IF extension \notin extension_configs THEN NoneConfig
    ELSE IF file.kind \in {"absent", "invalid", "null"} THEN NoneConfig
    ELSE file

\* Returns the writer's return value ("true"/"false") and the file afterwards.
save_extension_config(extension, config, file, s) ==
    IF extension \notin extension_configs THEN [out |-> "false", file |-> file]
    ELSE IF s = "ok" THEN [out |-> "true", file |-> config]
    ELSE IF s = "open_failed" THEN [out |-> "false", file |-> file]
    ELSE [out |-> "false", file |-> InvalidFile]

ServerEntry(server_config) ==
    [command |-> Get(server_config, "command", ""),
     args |-> Get(server_config, "args", <<>>),
     env |-> Get(server_config, "env", EmptyDict)]

\* Mutant: a server whose name is already configured is added under a second
\* key instead of replacing its entry.
add_server_to_extension_Duplicate(extension, server_config, file, s) ==
    LET current == get_extension_config(extension, file)
        c1 == IF current.kind = "none" THEN FreshConfig ELSE current
        c2 == IF c1.servers_kind = "missing"
              THEN [c1 EXCEPT !.servers_kind = "map", !.servers = EmptyDict]
              ELSE c1
        server_name == Get(server_config, "name", "unknown")
        key == IF server_name \in DOMAIN c2.servers THEN "copy" ELSE server_name
        c3 == [c2 EXCEPT !.servers = (key :> ServerEntry(server_config)) @@ c2.servers]
    IN  IF c1.kind = "nonobject" THEN [out |-> "raise", file |-> file]
        ELSE IF extension \in {"cline", "roo"}
             THEN IF c2.servers_kind = "nonmap"
                  THEN [out |-> "raise", file |-> file]
                  ELSE save_extension_config(extension, c3, file, s)
             ELSE save_extension_config(extension, c2, file, s)

\* out is "true", "false" or "raise" (a TypeError from indexing a value that
\* is not a dict).
add_server_to_extension(extension, server_config, file, s) ==
    LET current == get_extension_config(extension, file)
        c1 == IF current.kind = "none" THEN FreshConfig ELSE current
        c2 == IF c1.servers_kind = "missing"
              THEN [c1 EXCEPT !.servers_kind = "map", !.servers = EmptyDict]
              ELSE c1
        server_name == Get(server_config, "name", "unknown")
        c3 == [c2 EXCEPT !.servers = (server_name :> ServerEntry(server_config)) @@ c2.servers]
    IN  IF c1.kind = "nonobject" THEN [out |-> "raise", file |-> file]
        ELSE IF extension \in {"cline", "roo"}
             THEN IF c2.servers_kind = "nonmap"
                  THEN [out |-> "raise", file |-> file]
                  ELSE save_extension_config(extension, c3, file, s)
             ELSE save_extension_config(extension, c2, file, s)

\* ------------------------------------------------------ the Docker probe
DockerRunning ==
    ("status" :> TRUE) @@ ("message" :> <<"Docker", "installed", "and", "running">>)
        @@ ("daemon_running" :> TRUE)
DockerNotInstalled ==
    ("status" :> FALSE) @@ ("message" :> <<"Docker", "not", "installed">>)
DockerNotRunning ==
    ("status" :> FALSE) @@ ("message" :> <<"Docker", "installed", "but", "not", "running">>)
        @@ ("daemon_running" :> FALSE) @@ ("installed" :> TRUE)
DockerTimedOut ==
    ("status" :> FALSE) @@ ("message" :> <<"Docker", "check", "timed", "out">>)
DockerCheckFailed ==
    ("status" :> FALSE) @@ ("message" :> <<"Docker", "check", "failed">>)

check_docker(o1, o2) ==
    IF o1 = "ok"
    THEN CASE o2 = "ok" -> DockerRunning
           [] o2 = "nonzero" -> DockerNotRunning
           [] o2 = "timeout" -> DockerTimedOut
           [] o2 = "notfound" -> DockerNotInstalled
           [] OTHER -> DockerCheckFailed
    ELSE CASE o1 = "nonzero" -> DockerNotInstalled
           [] o1 = "timeout" -> DockerTimedOut
           [] o1 = "notfound" -> DockerNotInstalled
           [] OTHER -> DockerCheckFailed

\* The subprocesses check_docker runs, in order.
check_docker_calls(o1, o2) ==
    <<RunEvent(<<"docker", "--version">>, o1)>>
        \o (IF o1 = "ok" THEN <<RunEvent(<<"docker", "info">>, o2)>> ELSE <<>>)

\* get_docker_status returns the entry recorded by check_all when there is
\* one and probes otherwise.
get_docker_status(res, o1, o2) ==
    IF "docker" \in DOMAIN res THEN res["docker"] ELSE check_docker(o1, o2)
get_docker_status_calls(res, o1, o2) ==
    IF "docker" \in DOMAIN res THEN <<>> ELSE check_docker_calls(o1, o2)

StartsWith(s, prefix) ==
    Len(s) >= Len(prefix) /\ SubSeq(s, 1, Len(prefix)) = prefix

InSeq(x, s) == \E i \in 1..Len(s) : s[i] = x

\* ------------------------------------------------------------------ state
VARIABLES
    platform_system,  \* platform.system(): "Windows" or "Linux"
    results,          \* SystemChecker.results (the entries check_all stored)
    files,            \* the settings file of each supported extension
    pc,               \* position of the current install_server call
    server_config,    \* the descriptor the current backend works on
    trace,            \* blocking calls of the current install_server call
    ret,              \* what the backend returned to install_server
    result,           \* what install_server returned to its caller
    todo,             \* remaining iterations of the loop being executed
    python_cmd,       \* interpreter chosen by the python backend
    files0,           \* the settings files when the current call began
    first             \* the outcome of an earlier call with the same descriptor

\* SystemChecker._install_nodejs
VARIABLES
    nodejs_pc,        \* position of the _install_nodejs call
    nodejs_todo,      \* winget_commands still to be tried
    nodejs_log,       \* subprocesses of the call, in order
    nodejs_result     \* the dict the call returned

\* MCPServerManager._expand_volume_path
VARIABLES
    volume,           \* the volume string, as tokens
    environ,          \* os.environ, the variables that are set
    directories,      \* the directories that exist
    expanded          \* what the call returned

\* Server discovery and the threads of the GUI
VARIABLES
    self_servers,     \* MCPServerManager.servers, the local catalogue
    disc_caller,      \* who discovers: discover_servers or the dialog's thread
    disc_pc,          \* position of the discovery
    disc_todo,        \* online sources still to be queried
    discovered,       \* the dict the discovery builds and hands back
    discovered_servers, \* ServerDiscoveryDialog.discovered_servers
    worker_pc,        \* position of the thread started by run_in_thread
    dialog_open,      \* a ServerDiscoveryDialog exists
    after_queue,      \* callbacks scheduled with after(), oldest first
    gui_log           \* what each thread did: [thread, op, arg]

\* Concurrent calls of VSCodeExtensionConfig.add_server_to_extension
VARIABLES
    settings,         \* the settings file of the extension written to
    settings0,        \* that file before any of the calls
    extension,        \* the extension the calls are for
    writer,           \* per call: its position, what it read, what it returned
    writer_log        \* the reads and writes of the file, in order

\* ServerCreationDialog._save_to_catalog and config/servers.json
VARIABLES
    catalog_file,     \* config/servers.json
    catalog_before,   \* that file before the last save
    saves             \* the saves made: the descriptor and how each ended

\* The probes of SystemChecker, check_all and get_summary
VARIABLES
    probe,            \* the probe that was called: node_js, winget or docker
    probe_pc,         \* position of the probe
    probe_todo,       \* commands or paths the probe's loop has still to try
    probe_log,        \* subprocesses the probe itself ran, in order
    probe_result,     \* the dict the probe returned
    checks_todo,      \* checks the loop of check_all has still to run
    check_all_pc,     \* position of the check_all call
    pass_log,         \* the checks the current pass ran and how each ended
    summary           \* what get_summary returned after the pass

\* The Install button of an entry of ServerDiscoveryDialog
VARIABLES
    install_buttons,  \* the Install buttons created for the entry, oldest first
    install_threads,  \* the install_thread threads started, oldest first
    ui_queue,         \* callbacks scheduled with dialog.after, oldest first
    server_installed, \* the installation status of the entry's server
    refresh_pc        \* position of the discovery started by Refresh All

\* InstallationDialog
VARIABLES
    dlg_servers,      \* self.servers, the servers to install
    dlg_open,         \* the dialog's window exists
    installing,       \* self.installing
    start_btn,        \* state of self.start_btn
    close_btn,        \* state of self.close_btn
    run_pc,           \* position of the thread running _install_servers
    current_index,    \* self.current_index
    dlg_results,      \* self.results
    dlg_queue,        \* callbacks scheduled with dialog.after, oldest first
    dlg_runs,         \* how many times _start_installation ran
    completed         \* what _installation_complete found when it ran

install_vars == <<platform_system, results, files, pc, server_config,
                  trace, ret, result, todo, python_cmd, files0, first>>
nodejs_vars == <<nodejs_pc, nodejs_todo, nodejs_log, nodejs_result>>
volume_vars == <<volume, environ, directories, expanded>>
writer_vars == <<settings, settings0, extension, writer, writer_log>>
catalog_vars == <<catalog_file, catalog_before, saves>>
checker_vars == <<probe, probe_pc, probe_todo, probe_log, probe_result,
                  checks_todo, check_all_pc, pass_log, summary>>
button_vars == <<install_buttons, install_threads, ui_queue, server_installed,
                 refresh_pc>>
dlg_vars == <<dlg_servers, dlg_open, installing, start_btn, close_btn, run_pc,
              current_index, dlg_results, dlg_queue, dlg_runs, completed>>
dialog_vars == <<button_vars, dlg_vars>>
rest_vars == <<writer_vars, catalog_vars, checker_vars, dialog_vars, dialog_vars>>
gui_vars == <<self_servers, disc_caller, disc_pc, disc_todo, discovered,
              discovered_servers, worker_pc, dialog_open, after_queue, gui_log>>

call_vars == <<files0, first>>
aux_vars == <<nodejs_vars, volume_vars, gui_vars, rest_vars>>
aux_vars_but_checker == <<nodejs_vars, volume_vars, gui_vars, writer_vars, catalog_vars,
                          dialog_vars>>

vars == <<install_vars, aux_vars>>

env_vars == <<platform_system, results, files>>

\* No earlier call.
NoCall == [made |-> FALSE, result |-> None, files |-> <<>>, trace |-> <<>>]

\* The values of the variables of an operation that is not running.
NoResult == [status |-> FALSE, message |-> <<>>]
NodejsIdle ==
    /\ nodejs_pc = "idle"
    /\ nodejs_todo = <<>>
    /\ nodejs_log = <<>>
    /\ nodejs_result = NoResult
VolumeIdle ==
    /\ volume = <<>>
    /\ environ = EmptyDict
    /\ directories = {}
    /\ expanded = [kind |-> "none", volume |-> <<>>, created |-> {}]
DefaultCatalogue ==
    [kind |-> "dict", servers_kind |-> "dict",
     values |-> << [type |-> "npm",
                    package |-> "@modelcontextprotocol/server-filesystem"] >>]
GuiIdle ==
    /\ self_servers = DefaultCatalogue
    /\ disc_caller = "none"
    /\ disc_pc = "idle"
    /\ disc_todo = <<>>
    /\ discovered = EmptyDict
    /\ discovered_servers = EmptyDict
    /\ worker_pc = "none"
    /\ dialog_open = FALSE
    /\ after_queue = <<>>
    /\ gui_log = {}
Writers == {1, 2}
NotCalled == [pc |-> "idle", seen |-> AbsentFile, out |-> "none"]
WriterIdle ==
    /\ settings = AbsentFile
    /\ settings0 = AbsentFile
    /\ extension = "cline"
    /\ writer = [w \in Writers |-> NotCalled]
    /\ writer_log = <<>>
CatalogOf(kind, has_servers, servers, categories) ==
    [kind |-> kind, has_servers |-> has_servers, servers |-> servers,
     categories |-> categories]
AbsentCatalog == CatalogOf("absent", FALSE, EmptyDict, EmptyDict)
CatalogIdle ==
    /\ catalog_file = AbsentCatalog
    /\ catalog_before = AbsentCatalog
    /\ saves = <<>>
NoSummary == [status |-> "none", passed |-> 0, total |-> 0, critical_failed |-> <<>>]
CheckerIdle ==
    /\ probe = "none"
    /\ probe_pc = "idle"
    /\ probe_todo = <<>>
    /\ probe_log = <<>>
    /\ probe_result = NoResult
    /\ checks_todo = <<>>
    /\ check_all_pc = "idle"
    /\ pass_log = <<>>
    /\ summary = NoSummary
NotCompleted == [ran |-> FALSE, results |-> <<>>, successful |-> 0, failed |-> 0]
ButtonIdle ==
    /\ install_buttons = <<>>
    /\ install_threads = <<>>
    /\ ui_queue = <<>>
    /\ server_installed = FALSE
    /\ refresh_pc = "idle"
DlgIdle ==
    /\ dlg_servers = <<>>
    /\ dlg_open = FALSE
    /\ installing = FALSE
    /\ start_btn = "normal"
    /\ close_btn = "disabled"
    /\ run_pc = "none"
    /\ current_index = 0
    /\ dlg_results = <<>>
    /\ dlg_queue = <<>>
    /\ dlg_runs = 0
    /\ completed = NotCompleted
DialogIdle ==
    /\ ButtonIdle
    /\ DlgIdle
RestIdle ==
    /\ WriterIdle
    /\ CatalogIdle
    /\ CheckerIdle
    /\ DialogIdle
InstallIdle ==
    /\ results = EmptyDict
    /\ pc = "idle"
    /\ server_config = EmptyDict
    /\ trace = <<>>
    /\ ret = None
    /\ result = None
    /\ todo = <<>>
    /\ python_cmd = ""
    /\ first = NoCall

Init ==
    /\ platform_system \in {"Windows", "Linux"}
    /\ files \in InitialSettings
    /\ files0 = files
    /\ InstallIdle
    /\ NodejsIdle
    /\ VolumeIdle
    /\ GuiIdle
    /\ RestIdle

Log(events) == trace' = trace \o events

\* A backend returns r to install_server.
BackendReturns(r) == pc' = "return" /\ ret' = r

\* --------------------------------------------------------- the dispatcher
install_npm_server_entry(cfg) ==
    IF Get(cfg, "package", "") = ""
    THEN [pc |-> "return", ret |-> Value(FALSE, <<"No package specified">>)]
    ELSE [pc |-> "npm_probe", ret |-> None]

install_git_server_entry(cfg) ==
    IF Get(cfg, "repository", "") = ""
    THEN [pc |-> "return", ret |-> Value(FALSE, <<"No repository URL specified">>)]
    ELSE [pc |-> "git_probe", ret |-> None]

install_python_server_entry(cfg) == [pc |-> "python_probe", ret |-> None]

\* Mutant: the image is not checked before the implementation is entered.
install_docker_server_entry_NoCheck(cfg) == [pc |-> "docker_status", ret |-> None]

install_docker_server_entry(cfg) ==
    IF Get(cfg, "image", <<>>) = <<>>
    THEN [pc |-> "return", ret |-> Value(FALSE, <<"No Docker image specified">>)]
    ELSE [pc |-> "docker_status", ret |-> None]

\* Mutant: an unrecognised type is handed to the npm backend.
Dispatch_DefaultNpm(cfg) ==
    LET server_type == Get(cfg, "type", "unknown")
    IN  CASE server_type = "git" -> install_git_server_entry(cfg)
          [] server_type = "python" -> install_python_server_entry(cfg)
          [] server_type = "docker" -> install_docker_server_entry(cfg)
          [] OTHER -> install_npm_server_entry(cfg)

Dispatch(cfg) ==
    LET server_type == Get(cfg, "type", "unknown")
    IN  CASE server_type = "npm" -> install_npm_server_entry(cfg)
          [] server_type = "git" -> install_git_server_entry(cfg)
          [] server_type = "python" -> install_python_server_entry(cfg)
          [] server_type = "docker" -> install_docker_server_entry(cfg)
          [] OTHER -> [pc |-> "return",
                       ret |-> Value(FALSE, <<"Unsupported server type: ", server_type>>)]

\* install_server is called with descriptor cfg.
InstallServer(cfg) ==
    /\ pc = "idle"
    /\ server_config' = cfg
    /\ trace' = <<>>
    /\ result' = None
    /\ pc' = Dispatch(cfg).pc
    /\ ret' = Dispatch(cfg).ret
    /\ todo' = <<>>
    /\ python_cmd' = ""
    /\ files0' = files
    /\ UNCHANGED <<first, aux_vars, platform_system, results, files>>

\* The try/except of install_server around the backend call.
install_server_result(r) ==
    IF r.kind = "raise"
    THEN Value(FALSE, <<"Installation failed: ">> \o r.msg)
    ELSE r

Return ==
    /\ pc = "return"
    /\ result' = install_server_result(ret)
    /\ pc' = "done"
    /\ UNCHANGED <<call_vars, aux_vars, env_vars, server_config, trace, ret, todo, python_cmd>>

\* check_all stores the Docker probe's result in the results mapping.
CheckAll ==
    /\ pc = "idle"
    /\ \E o1 \in DockerProbeOutcomes, o2 \in DockerProbeOutcomes :
          results' = ("docker" :> check_docker(o1, o2)) @@ results
    /\ UNCHANGED <<call_vars, aux_vars, platform_system, files, pc, server_config,
                   trace, ret, result, todo, python_cmd>>

\* ------------------------------------------------------- the npm backend
NpmVersionCmd == <<"npm", "--version">>
WingetNodeCmd ==
    <<"winget", "install", "OpenJS.NodeJS", "--accept-package-agreements",
      "--accept-source-agreements">>
NpmInstallCmd(package) == <<"npm", "install", "-g", package>>

NodeNotFoundMsg ==
    <<"Node.js/npm not found. Please install Node.js from https://nodejs.org/ and restart the application.">>

\* ["cline", "roo", "claude_desktop"] when the descriptor is an npm one
\* with a package, nothing otherwise.
configure_extensions(cfg) ==
    IF Get(cfg, "type", "") = "npm" /\ Get(cfg, "package", "") # ""
    THEN <<"cline", "roo", "claude_desktop">>
    ELSE <<>>

npm_vscode_config(cfg) ==
    LET package == Get(cfg, "package", "")
        config == Get(cfg, "configuration", EmptyDict)
        args0 == Get(config, "args", <<package>>)
        args == IF args0 = <<>> \/ ~InSeq(package, args0) THEN <<package>> \o args0 ELSE args0
    IN  ("name" :> Get(cfg, "name", "Unknown")) @@ ("command" :> Get(config, "command", "npx"))
            @@ ("args" :> args) @@ ("env" :> Get(config, "env", EmptyDict))

NpmSuccess(cfg) ==
    Value(TRUE, <<"Successfully installed ", Get(cfg, "name", Get(cfg, "package", ""))>>)

\* The outcome of the first npm --version probe.
npm_probe_next(o, system) ==
    CASE o = "ok" -> [pc |-> "npm_install", ret |-> None]
      [] o = "nonzero" ->
            [pc |-> "return",
             ret |-> Value(FALSE, <<"npm is not available. Please install Node.js first.">>)]
      [] o = "notfound" ->
            IF system = "Windows"
            THEN [pc |-> "npm_auto_install", ret |-> None]
            ELSE [pc |-> "return", ret |-> Value(FALSE, NodeNotFoundMsg)]
      [] OTHER ->
            [pc |-> "return", ret |-> Value(FALSE, <<"Cannot check npm availability: ", o>>)]

NpmProbe ==
    /\ pc = "npm_probe"
    /\ \E o \in ProbeOutcomes :
          /\ Log(<<RunEvent(NpmVersionCmd, o)>>)
          /\ pc' = npm_probe_next(o, platform_system).pc
          /\ ret' = npm_probe_next(o, platform_system).ret
    /\ UNCHANGED <<call_vars, aux_vars, env_vars, server_config, result, todo, python_cmd>>

\* _auto_install_nodejs: True exactly when winget exits 0.
auto_install_nodejs(o) == o = "ok"

AutoInstallNodejs ==
    /\ pc = "npm_auto_install"
    /\ \E o \in ExecOutcomes :
          /\ Log(<<RunEvent(WingetNodeCmd, o)>>)
          /\ IF auto_install_nodejs(o)
             THEN pc' = "npm_reprobe" /\ ret' = ret
             ELSE BackendReturns(Value(FALSE, NodeNotFoundMsg))
    /\ UNCHANGED <<call_vars, aux_vars, env_vars, server_config, result, todo, python_cmd>>

npm_reprobe_next(o) ==
    CASE o = "ok" -> [pc |-> "npm_install", ret |-> None]
      [] o = "nonzero" ->
            [pc |-> "return",
             ret |-> Value(FALSE, <<"Node.js installed but npm still not working. Please restart the application.">>)]
      [] OTHER ->
            [pc |-> "return",
             ret |-> Value(FALSE, <<"Node.js installed but npm still not available. Please restart the application.">>)]

NpmReprobe ==
    /\ pc = "npm_reprobe"
    /\ \E o \in ProbeOutcomes :
          /\ Log(<<RunEvent(NpmVersionCmd, o)>>)
          /\ pc' = npm_reprobe_next(o).pc
          /\ ret' = npm_reprobe_next(o).ret
    /\ UNCHANGED <<call_vars, aux_vars, env_vars, server_config, result, todo, python_cmd>>

\* Mutant: a failed npm install -g is tried once more.
npm_install_next_Retry(o, cfg) ==
    CASE o = "ok" -> [pc |-> "npm_configure", ret |-> None]
      [] o # "ok" /\ ~(\E i \in 1..Len(trace) :
                          trace[i].cmd = NpmInstallCmd(Get(cfg, "package", ""))) ->
            [pc |-> "npm_install", ret |-> None]
      [] o = "nonzero" ->
            [pc |-> "return", ret |-> Value(FALSE, <<"npm install failed (exit code): ", "stderr">>)]
      [] OTHER ->
            [pc |-> "return", ret |-> Value(FALSE, <<"Installation error: ", o>>)]

\* The outcome of npm install -g: the inner except Exception catches every
\* exception of the subprocess, TimeoutExpired included.
npm_install_next(o, cfg) ==
    CASE o = "ok" -> [pc |-> "npm_configure", ret |-> None]
      [] o = "nonzero" ->
            [pc |-> "return", ret |-> Value(FALSE, <<"npm install failed (exit code): ", "stderr">>)]
      [] OTHER ->
            [pc |-> "return", ret |-> Value(FALSE, <<"Installation error: ", o>>)]

NpmInstall ==
    /\ pc = "npm_install"
    /\ \E o \in ExecOutcomes :
          /\ Log(<<RunEvent(NpmInstallCmd(Get(server_config, "package", "")), o)>>)
          /\ pc' = npm_install_next(o, server_config).pc
          /\ ret' = npm_install_next(o, server_config).ret
          /\ todo' = IF o = "ok" THEN configure_extensions(server_config) ELSE <<>>
    /\ UNCHANGED <<call_vars, aux_vars, env_vars, server_config, result, python_cmd>>

\* One iteration of the loop of _configure_server_in_vscode; an exception of
\* the writer is caught inside the loop.  After the loop the backend
\* returns success.
NpmConfigure ==
    /\ pc = "npm_configure"
    /\ IF todo = <<>>
       THEN /\ BackendReturns(NpmSuccess(server_config))
            /\ UNCHANGED <<files, trace, todo>>
       ELSE \E s \in SaveOutcomes :
              LET ext == Head(todo)
                  file == IF ext \in DOMAIN files THEN files[ext] ELSE AbsentFile
                  w == add_server_to_extension(ext, npm_vscode_config(server_config), file, s)
              IN  /\ Log(<<IdeEvent(ext, w.out)>>)
                  /\ files' = IF ext \in DOMAIN files THEN [files EXCEPT ![ext] = w.file] ELSE files
                  /\ todo' = Tail(todo)
                  /\ UNCHANGED <<pc, ret>>
    /\ UNCHANGED <<call_vars, aux_vars, platform_system, results, server_config, result, python_cmd>>

\* ------------------------------------------------------- the git backend
GitVersionCmd == <<"git", "--version">>
GitCloneCmd(repository) == <<"git", "clone", repository, "target_path">>
GitNpmInstallCmd == <<"npm", "install">>

GitSuccess(cfg) ==
    Value(TRUE, <<"Successfully cloned ", Get(cfg, "name", "Git Server"), " to ", "target_path">>)

\* What the handlers of _install_git_server's try block return for an
\* exception raised anywhere inside it.
\* Mutant: the general handler logs and falls off the end of the function.
git_except_NoReturn(o) ==
    IF o = "timeout" THEN Value(FALSE, <<"Git clone timed out">>) ELSE None

git_except(o) ==
    IF o = "timeout"
    THEN Value(FALSE, <<"Git clone timed out">>)
    ELSE Value(FALSE, <<"Git installation error: ", o>>)

\* git --version, then target_path.mkdir (mk says whether mkdir succeeds).
git_probe_next(o, mk) ==
    CASE o = "ok" ->
            IF mk THEN [pc |-> "git_clone", ret |-> None]
            ELSE [pc |-> "return", ret |-> git_except("error")]
      [] o = "nonzero" ->
            [pc |-> "return",
             ret |-> Value(FALSE, <<"git is not available. Please install Git first.">>)]
      [] OTHER -> [pc |-> "return", ret |-> git_except(o)]

GitProbe ==
    /\ pc = "git_probe"
    /\ \E o \in ExecOutcomes, mk \in BOOLEAN :
          /\ Log(<<RunEvent(GitVersionCmd, o)>>)
          /\ pc' = git_probe_next(o, mk).pc
          /\ ret' = git_probe_next(o, mk).ret
    /\ UNCHANGED <<call_vars, aux_vars, env_vars, server_config, result, todo, python_cmd>>

\* git clone; package_json says whether the clone holds a package.json.
git_clone_next(o, package_json, cfg) ==
    CASE o = "ok" ->
            IF package_json THEN [pc |-> "git_npm_install", ret |-> None]
            ELSE [pc |-> "return", ret |-> GitSuccess(cfg)]
      [] o = "nonzero" ->
            [pc |-> "return", ret |-> Value(FALSE, <<"git clone failed: ", "stderr">>)]
      [] OTHER -> [pc |-> "return", ret |-> git_except(o)]

GitClone ==
    /\ pc = "git_clone"
    /\ \E o \in ExecOutcomes, package_json \in BOOLEAN :
          /\ Log(<<RunEvent(GitCloneCmd(Get(server_config, "repository", "")), o)>>)
          /\ pc' = git_clone_next(o, package_json, server_config).pc
          /\ ret' = git_clone_next(o, package_json, server_config).ret
    /\ UNCHANGED <<call_vars, aux_vars, env_vars, server_config, result, todo, python_cmd>>

\* npm install inside the clone: a nonzero exit is a warning, an exception
\* reaches the handlers of the backend's try block.
git_npm_install_result(o, cfg) ==
    IF o \in {"ok", "nonzero"} THEN GitSuccess(cfg) ELSE git_except(o)

GitNpmInstall ==
    /\ pc = "git_npm_install"
    /\ \E o \in Outcomes :
          /\ Log(<<RunEvent(GitNpmInstallCmd, o)>>)
          /\ BackendReturns(git_npm_install_result(o, server_config))
    /\ UNCHANGED <<call_vars, aux_vars, env_vars, server_config, result, todo, python_cmd>>

\* ---------------------------------------------------- the python backend
PythonVersionCmd(python) == <<python, "--version">>
PipInstallCmd(python, cfg) ==
    IF Get(cfg, "package", "") # ""
    THEN <<python, "-m", "pip", "install", Get(cfg, "package", "")>>
    ELSE <<python, "-m", "pip", "install", "git+", Get(cfg, "repository", "")>>

python_except(o) ==
    IF o = "timeout"
    THEN Value(FALSE, <<"Python installation timed out">>)
    ELSE Value(FALSE, <<"Python installation error: ", o>>)

\* After an interpreter has been found: package, else repository, else fail.
python_after_probe(cfg) ==
    IF Get(cfg, "package", "") # "" \/ Get(cfg, "repository", "") # ""
    THEN [pc |-> "pip_install", ret |-> None]
    ELSE [pc |-> "return",
          ret |-> Value(FALSE, <<"No package or repository specified for Python server">>)]

\* The probes run through the shell on Windows, where a missing interpreter
\* is a nonzero exit; elsewhere it is a FileNotFoundError.
PythonProbeOutcomes(system) ==
    IF system = "Windows" THEN ExecOutcomes ELSE Outcomes

python_probe_next(o, cfg) ==
    CASE o = "ok" -> python_after_probe(cfg)
      [] o = "nonzero" -> [pc |-> "python3_probe", ret |-> None]
      [] OTHER -> [pc |-> "return", ret |-> python_except(o)]

PythonProbe ==
    /\ pc = "python_probe"
    /\ \E o \in PythonProbeOutcomes(platform_system) :
          /\ Log(<<RunEvent(PythonVersionCmd("python"), o)>>)
          /\ pc' = python_probe_next(o, server_config).pc
          /\ ret' = python_probe_next(o, server_config).ret
          /\ python_cmd' = IF o = "ok" THEN "python" ELSE python_cmd
    /\ UNCHANGED <<call_vars, aux_vars, env_vars, server_config, result, todo>>

python3_probe_next(o, cfg) ==
    CASE o = "ok" -> python_after_probe(cfg)
      [] o = "nonzero" ->
            [pc |-> "return",
             ret |-> Value(FALSE, <<"Python is not available. Please install Python first.">>)]
      [] OTHER -> [pc |-> "return", ret |-> python_except(o)]

Python3Probe ==
    /\ pc = "python3_probe"
    /\ \E o \in PythonProbeOutcomes(platform_system) :
          /\ Log(<<RunEvent(PythonVersionCmd("python3"), o)>>)
          /\ pc' = python3_probe_next(o, server_config).pc
          /\ ret' = python3_probe_next(o, server_config).ret
          /\ python_cmd' = IF o = "ok" THEN "python3" ELSE python_cmd
    /\ UNCHANGED <<call_vars, aux_vars, env_vars, server_config, result, todo>>

pip_install_result(o, cfg) ==
    CASE o = "ok" ->
            IF Get(cfg, "package", "") # ""
            THEN Value(TRUE, <<"Successfully installed Python package ", Get(cfg, "package", "")>>)
            ELSE Value(TRUE, <<"Successfully installed Python server from ", Get(cfg, "repository", "")>>)
      [] o = "nonzero" ->
            IF Get(cfg, "package", "") # ""
            THEN Value(FALSE, <<"pip install failed: ", "stderr">>)
            ELSE Value(FALSE, <<"pip install from git failed: ", "stderr">>)
      [] OTHER -> python_except(o)

PipInstall ==
    /\ pc = "pip_install"
    /\ \E o \in ExecOutcomes :
          /\ Log(<<RunEvent(PipInstallCmd(python_cmd, server_config), o)>>)
          /\ BackendReturns(pip_install_result(o, server_config))
    /\ UNCHANGED <<call_vars, aux_vars, env_vars, server_config, result, todo, python_cmd>>

\* ---------------------------------------------------- the docker backend
\* _install_docker_server_impl returns r to _install_docker_server.
ImplReturns(r) == pc' = "docker_return" /\ ret' = r

DockerInstallCommands ==
    << <<"winget", "install", "Docker.DockerDesktop", "--silent">>,
       <<"winget", "install", "docker", "--silent">> >>
DockerStartCommands ==
    << <<"powershell", "-Command", "Start-Process", "'Docker Desktop'">>,
       <<"cmd", "/c", "start", "Docker Desktop">> >>
SystemctlCmd == <<"sudo", "systemctl", "start", "docker">>

\* Mutant: the prefix alone makes an image a local-build image.
is_local_build_PrefixOnly(image) == StartsWith(image, <<"mcp-">>)

\* image.startswith("mcp-") and ":" in image
is_local_build(image) == StartsWith(image, <<"mcp-">>) /\ InSeq(":", image)

\* image.split(":")[0]
RECURSIVE before_colon(_)
before_colon(image) ==
    IF image = <<>> \/ Head(image) = ":" THEN <<>>
    ELSE <<Head(image)>> \o before_colon(Tail(image))

dockerfile_map ==
    (<<"mcp-", "filesystem">> :> "Dockerfile.filesystem")
        @@ (<<"mcp-", "browser">> :> "Dockerfile.playwright")
        @@ (<<"mcp-", "git">> :> "Dockerfile.git")
        @@ (<<"mcp-", "memory">> :> "Dockerfile.memory")

\* server_name.lower().replace(' ', '-'), tabulated for the names in use.
lower_dashed(server_name) ==
    CASE server_name = "Filesystem MCP Server" -> "filesystem-mcp-server"
      [] server_name = "Server" -> "server"
      [] OTHER -> server_name
container_name(cfg) == <<"mcp-", lower_dashed(Get(cfg, "name", "Server"))>>

DockerInspectCmd(image) == <<"docker", "image", "inspect">> \o image
DockerBuildCmd(image, dockerfile) ==
    <<"docker", "build", "-f", "docker", dockerfile, "-t">> \o image \o <<"docker">>
DockerPullCmd(image) == <<"docker", "pull">> \o image
DockerStopCmd(cfg) == <<"docker", "stop">> \o container_name(cfg)
DockerRmCmd(cfg) == <<"docker", "rm">> \o container_name(cfg)
DockerRunCmd(cfg) ==
    <<"docker", "run", "-d", "--name">> \o container_name(cfg)
        \o <<"--restart", "unless-stopped">> \o Get(cfg, "image", <<>>)

\* The image part of _install_docker_server_impl: build or reuse a local
\* image, pull any other.
image_step(cfg) ==
    IF is_local_build(Get(cfg, "image", <<>>))
    THEN [pc |-> "docker_inspect", ret |-> None]
    ELSE [pc |-> "docker_pull", ret |-> None]

\* Mutant: the container is started without the cleanup before it.
run_container_start_NoCleanup(cfg) ==
    IF Get(Get(cfg, "configuration", EmptyDict), "run_mode", "daemon") = "interactive"
    THEN [pc |-> "run_configure", ret |-> None]
    ELSE [pc |-> "docker_run", ret |-> None]

\* The start of _run_docker_container: interactive mode runs no container.
run_container_start(cfg) ==
    IF Get(Get(cfg, "configuration", EmptyDict), "run_mode", "daemon") = "interactive"
    THEN [pc |-> "run_configure", ret |-> None]
    ELSE [pc |-> "docker_stop", ret |-> None]

docker_vscode_config(cfg) ==
    LET config == Get(cfg, "configuration", EmptyDict)
        server_name == Get(cfg, "name", "Server")
    IN  IF Get(config, "run_mode", "daemon") = "interactive"
        THEN ("name" :> server_name) @@ ("command" :> "docker")
                @@ ("args" :> <<"run", "-i", "--rm", "--init", "--pull=always">>
                                  \o Get(cfg, "image", <<>>))
                @@ ("env" :> Get(config, "environment", EmptyDict))
        ELSE ("name" :> server_name) @@ ("command" :> "docker")
                @@ ("args" :> <<"exec", "-i">> \o container_name(cfg)
                                  \o Get(config, "command", <<"npx", "@playwright/mcp">>))
                @@ ("env" :> Get(config, "environment", EmptyDict))

\* The loop a position iterates over when it is entered.
LoopAt(p) ==
    CASE p \in {"build_configure", "run_configure"} -> <<"cline", "roo">>
      [] p = "docker_install" -> DockerInstallCommands
      [] p = "docker_start" -> DockerStartCommands
      [] OTHER -> <<>>

StatusEvent(st) == ProbeEvent("docker", IF Get(st, "status", FALSE) THEN "ok" ELSE "nonzero")

\* First get_docker_status of _install_docker_server_impl.
DockerStatus ==
    /\ pc = "docker_status"
    /\ \E o1 \in DockerProbeOutcomes, o2 \in DockerProbeOutcomes :
          LET st == get_docker_status(results, o1, o2)
              nxt == IF Get(st, "status", FALSE)
                     THEN image_step(server_config)
                     ELSE [pc |-> "docker_ensure", ret |-> None]
          IN  /\ Log(get_docker_status_calls(results, o1, o2) \o <<StatusEvent(st)>>)
              /\ pc' = nxt.pc
              /\ ret' = nxt.ret
    /\ UNCHANGED <<call_vars, aux_vars, env_vars, server_config, result, todo, python_cmd>>

SetupFailed(msg) == Value(FALSE, <<"Docker setup failed: ">> \o msg)

\* _install_docker up to its first subprocess.
install_docker_start(system) ==
    IF system = "Windows"
    THEN [pc |-> "docker_install", ret |-> None]
    ELSE [pc |-> "docker_return",
          ret |-> SetupFailed(<<"Automatic Docker installation not supported on this platform. Please install Docker manually.">>)]

\* _start_docker up to its first subprocess.
start_docker_start(system) ==
    IF system = "Windows"
    THEN [pc |-> "docker_start", ret |-> None]
    ELSE [pc |-> "docker_systemctl", ret |-> None]

\* The case analysis of _ensure_docker_available on the status st.
ensure_docker_available(st, system) ==
    CASE ~Get(st, "installed", FALSE) /\ StartsWith(Get(st, "message", <<>>), <<"Docker", "not">>) ->
            install_docker_start(system)
      [] Get(st, "installed", FALSE) /\ ~Get(st, "daemon_running", FALSE) ->
            start_docker_start(system)
      [] Get(st, "status", FALSE) -> [pc |-> "docker_recheck", ret |-> None]
      [] OTHER ->
            [pc |-> "docker_return",
             ret |-> SetupFailed(<<"Unknown Docker state: ">> \o Get(st, "message", <<"Unknown">>))]

EnsureDockerAvailable ==
    /\ pc = "docker_ensure"
    /\ \E o1 \in DockerProbeOutcomes, o2 \in DockerProbeOutcomes :
          LET st == get_docker_status(results, o1, o2)
              nxt == ensure_docker_available(st, platform_system)
          IN  /\ Log(get_docker_status_calls(results, o1, o2) \o <<StatusEvent(st)>>)
              /\ pc' = nxt.pc
              /\ ret' = nxt.ret
              /\ todo' = LoopAt(nxt.pc)
    /\ UNCHANGED <<call_vars, aux_vars, env_vars, server_config, result, python_cmd>>

\* One iteration of the loop of _install_docker over the winget commands.
DockerInstall ==
    /\ pc = "docker_install"
    /\ \E o \in ExecOutcomes :
          /\ Log(<<RunEvent(Head(todo), o)>>)
          /\ IF o = "ok"
             THEN pc' = "docker_recheck" /\ ret' = ret /\ todo' = <<>>
             ELSE IF Tail(todo) = <<>>
                  THEN /\ ImplReturns(SetupFailed(<<"Automatic Docker installation failed. Please install Docker Desktop manually from https://docker.com/products/docker-desktop">>))
                       /\ todo' = <<>>
                  ELSE pc' = pc /\ ret' = ret /\ todo' = Tail(todo)
    /\ UNCHANGED <<call_vars, aux_vars, env_vars, server_config, result, python_cmd>>

\* One iteration of the loop of _start_docker over the start commands.
DockerStart ==
    /\ pc = "docker_start"
    /\ \E o \in ExecOutcomes :
          /\ Log(<<RunEvent(Head(todo), o)>>)
          /\ IF o = "ok"
             THEN pc' = "docker_start_check" /\ ret' = ret /\ todo' = <<>>
             ELSE IF Tail(todo) = <<>>
                  THEN /\ ImplReturns(SetupFailed(<<"Could not start Docker automatically. Please start Docker Desktop manually.">>))
                       /\ todo' = <<>>
                  ELSE pc' = pc /\ ret' = ret /\ todo' = Tail(todo)
    /\ UNCHANGED <<call_vars, aux_vars, env_vars, server_config, result, python_cmd>>

\* The get_docker_status of _start_docker after the ten-second wait.
DockerStartCheck ==
    /\ pc = "docker_start_check"
    /\ \E o1 \in DockerProbeOutcomes, o2 \in DockerProbeOutcomes :
          LET st == get_docker_status(results, o1, o2)
          IN  /\ Log(get_docker_status_calls(results, o1, o2) \o <<StatusEvent(st)>>)
              /\ IF Get(st, "status", FALSE)
                 THEN pc' = "docker_recheck" /\ ret' = ret
                 ELSE ImplReturns(SetupFailed(<<"Docker was started but is not yet ready. Please wait a moment and try again.">>))
    /\ UNCHANGED <<call_vars, aux_vars, env_vars, server_config, result, todo, python_cmd>>

systemctl_result(o) ==
    CASE o = "ok" -> [pc |-> "docker_recheck", ret |-> None]
      [] o = "nonzero" ->
            [pc |-> "docker_return", ret |-> SetupFailed(<<"Failed to start Docker service: ", "stderr">>)]
      [] OTHER ->
            [pc |-> "docker_return", ret |-> SetupFailed(<<"Failed to start Docker on Linux: ", o>>)]

DockerSystemctl ==
    /\ pc = "docker_systemctl"
    /\ \E o \in ExecOutcomes :
          /\ Log(<<RunEvent(SystemctlCmd, o)>>)
          /\ pc' = systemctl_result(o).pc
          /\ ret' = systemctl_result(o).ret
    /\ UNCHANGED <<call_vars, aux_vars, env_vars, server_config, result, todo, python_cmd>>

\* The get_docker_status after a successful _ensure_docker_available.
DockerRecheck ==
    /\ pc = "docker_recheck"
    /\ \E o1 \in DockerProbeOutcomes, o2 \in DockerProbeOutcomes :
          LET st == get_docker_status(results, o1, o2)
              nxt == IF Get(st, "status", FALSE)
                     THEN image_step(server_config)
                     ELSE [pc |-> "docker_return",
                           ret |-> Value(FALSE, <<"Docker setup completed but Docker still not available">>)]
          IN  /\ Log(get_docker_status_calls(results, o1, o2) \o <<StatusEvent(st)>>)
              /\ pc' = nxt.pc
              /\ ret' = nxt.ret
    /\ UNCHANGED <<call_vars, aux_vars, env_vars, server_config, result, todo, python_cmd>>

\* _docker_image_exists: True exactly when docker image inspect exits 0.
\* Mutant: an exception of the inspect command counts as "exists".
docker_image_exists_Lenient(o) == o # "nonzero"

docker_image_exists(o) == o = "ok"

\* _build_local_docker_image up to its subprocess; dockerfile_exists is
\* whether docker/<dockerfile> exists.
build_local_docker_image_start(image, dockerfile_exists) ==
    LET image_name == before_colon(image)
    IN  IF image_name \notin DOMAIN dockerfile_map
        THEN [pc |-> "docker_return",
              ret |-> Value(FALSE, <<"No Dockerfile found for image: ">> \o image_name)]
        ELSE IF ~dockerfile_exists
             THEN [pc |-> "docker_return",
                   ret |-> Value(FALSE, <<"Dockerfile not found: ", "docker", dockerfile_map[image_name]>>)]
             ELSE [pc |-> "docker_build", ret |-> None]

DockerInspect ==
    /\ pc = "docker_inspect"
    /\ \E o \in DockerProbeOutcomes, dockerfile_exists \in BOOLEAN :
          LET image == Get(server_config, "image", <<>>)
              nxt == IF docker_image_exists(o)
                     THEN run_container_start(server_config)
                     ELSE build_local_docker_image_start(image, dockerfile_exists)
          IN  /\ Log(<<RunEvent(DockerInspectCmd(image), o)>>)
              /\ pc' = nxt.pc
              /\ ret' = nxt.ret
              /\ todo' = LoopAt(nxt.pc)
    /\ UNCHANGED <<call_vars, aux_vars, env_vars, server_config, result, python_cmd>>

docker_build_next(o) ==
    CASE o = "ok" -> [pc |-> "build_configure", ret |-> None]
      [] o = "nonzero" ->
            [pc |-> "docker_return", ret |-> Value(FALSE, <<"Docker build failed: ", "stderr">>)]
      [] o = "timeout" ->
            [pc |-> "docker_return", ret |-> Value(FALSE, <<"Docker build timed out">>)]
      [] OTHER ->
            [pc |-> "docker_return", ret |-> Value(FALSE, <<"Docker build error: ", o>>)]

DockerBuild ==
    /\ pc = "docker_build"
    /\ \E o \in ExecOutcomes :
          LET image == Get(server_config, "image", <<>>)
          IN  /\ Log(<<RunEvent(DockerBuildCmd(image, dockerfile_map[before_colon(image)]), o)>>)
              /\ pc' = docker_build_next(o).pc
              /\ ret' = docker_build_next(o).ret
              /\ todo' = LoopAt(docker_build_next(o).pc)
    /\ UNCHANGED <<call_vars, aux_vars, env_vars, server_config, result, python_cmd>>

\* After a successful build the descriptor itself is handed to the writer
\* for Cline and Roo; an exception of the writer reaches the handler of
\* _build_local_docker_image.  Then the container is run.
BuildConfigure ==
    /\ pc = "build_configure"
    /\ IF todo = <<>>
       THEN /\ pc' = run_container_start(server_config).pc
            /\ ret' = ret
            /\ todo' = LoopAt(run_container_start(server_config).pc)
            /\ UNCHANGED <<files, trace>>
       ELSE \E s \in SaveOutcomes :
              LET ext == Head(todo)
                  w == add_server_to_extension(ext, server_config, files[ext], s)
              IN  /\ Log(<<IdeEvent(ext, w.out)>>)
                  /\ files' = [files EXCEPT ![ext] = w.file]
                  /\ IF w.out = "raise"
                     THEN /\ ImplReturns(Value(FALSE, <<"Docker build error: ", "TypeError">>))
                          /\ todo' = <<>>
                     ELSE pc' = pc /\ ret' = ret /\ todo' = Tail(todo)
    /\ UNCHANGED <<call_vars, aux_vars, platform_system, results, server_config, result, python_cmd>>

\* _cleanup_existing_container: docker stop, then docker rm; any exception
\* ends the cleanup silently.
DockerStop ==
    /\ pc = "docker_stop"
    /\ \E o \in CleanupOutcomes :
          /\ Log(<<RunEvent(DockerStopCmd(server_config), o)>>)
          /\ pc' = IF o \in Raising THEN "docker_run" ELSE "docker_rm"
    /\ UNCHANGED <<call_vars, aux_vars, env_vars, server_config, ret, result, todo, python_cmd>>

DockerRm ==
    /\ pc = "docker_rm"
    /\ \E o \in CleanupOutcomes :
          /\ Log(<<RunEvent(DockerRmCmd(server_config), o)>>)
          /\ pc' = "docker_run"
    /\ UNCHANGED <<call_vars, aux_vars, env_vars, server_config, ret, result, todo, python_cmd>>

docker_run_next(o) ==
    CASE o = "ok" -> [pc |-> "run_configure", ret |-> None]
      [] o = "nonzero" ->
            [pc |-> "docker_return", ret |-> Value(FALSE, <<"Docker run failed: ", "stderr">>)]
      [] o = "timeout" ->
            [pc |-> "docker_return", ret |-> Value(FALSE, <<"Docker container start timed out">>)]
      [] OTHER ->
            [pc |-> "docker_return", ret |-> Value(FALSE, <<"Docker container error: ", o>>)]

DockerRun ==
    /\ pc = "docker_run"
    /\ \E o \in ExecOutcomes :
          /\ Log(<<RunEvent(DockerRunCmd(server_config), o)>>)
          /\ pc' = docker_run_next(o).pc
          /\ ret' = docker_run_next(o).ret
          /\ todo' = LoopAt(docker_run_next(o).pc)
    /\ UNCHANGED <<call_vars, aux_vars, env_vars, server_config, result, python_cmd>>

DockerSuccess(cfg) ==
    Value(TRUE, <<"Successfully configured ", Get(cfg, "name", "Server"), " for MCP via Docker">>)

\* The two writer calls at the end of _run_docker_container, inside its try
\* block: an exception of the writer reaches except Exception.
RunConfigure ==
    /\ pc = "run_configure"
    /\ IF todo = <<>>
       THEN /\ ImplReturns(DockerSuccess(server_config))
            /\ UNCHANGED <<files, trace, todo>>
       ELSE \E s \in SaveOutcomes :
              LET ext == Head(todo)
                  w == add_server_to_extension(ext, docker_vscode_config(server_config), files[ext], s)
              IN  /\ Log(<<IdeEvent(ext, w.out)>>)
                  /\ files' = [files EXCEPT ![ext] = w.file]
                  /\ IF w.out = "raise"
                     THEN /\ ImplReturns(Value(FALSE, <<"Docker container error: ", "TypeError">>))
                          /\ todo' = <<>>
                     ELSE pc' = pc /\ ret' = ret /\ todo' = Tail(todo)
    /\ UNCHANGED <<call_vars, aux_vars, platform_system, results, server_config, result, python_cmd>>

docker_pull_next(o, cfg) ==
    CASE o = "ok" -> run_container_start(cfg)
      [] o = "nonzero" ->
            [pc |-> "docker_return", ret |-> Value(FALSE, <<"docker pull failed: ", "stderr">>)]
      [] o = "timeout" ->
            [pc |-> "docker_return", ret |-> Value(FALSE, <<"Docker pull timed out">>)]
      [] OTHER ->
            [pc |-> "docker_return", ret |-> Value(FALSE, <<"Docker installation error: ", o>>)]

DockerPull ==
    /\ pc = "docker_pull"
    /\ \E o \in ExecOutcomes :
          /\ Log(<<RunEvent(DockerPullCmd(Get(server_config, "image", <<>>)), o)>>)
          /\ pc' = docker_pull_next(o, server_config).pc
          /\ ret' = docker_pull_next(o, server_config).ret
          /\ todo' = LoopAt(docker_pull_next(o, server_config).pc)
    /\ UNCHANGED <<call_vars, aux_vars, env_vars, server_config, result, python_cmd>>

\* _install_fallback_server: the fallback's fields are merged over the
\* descriptor and the backend of the fallback's type is entered.
install_fallback_server(original_config, fallback_config) ==
    LET fallback_type == Get(fallback_config, "type", "unknown")
        temp_config == fallback_config @@ original_config
        entry == CASE fallback_type = "npm" -> install_npm_server_entry(temp_config)
                   [] fallback_type = "python" -> install_python_server_entry(temp_config)
                   [] fallback_type = "git" -> install_git_server_entry(temp_config)
                   [] OTHER -> [pc |-> "return",
                                ret |-> Value(FALSE, <<"Unsupported fallback type: ", fallback_type>>)]
    IN  [pc |-> entry.pc, ret |-> entry.ret, cfg |-> temp_config]

\* The try/except of _install_docker_server around the implementation: a
\* returned pair is passed on; an exception starts the fallback when the
\* descriptor has one.
install_docker_server_return(r, cfg) ==
    IF r.kind = "raise"
    THEN IF Get(cfg, "fallback", EmptyDict) # EmptyDict
         THEN install_fallback_server(cfg, Get(cfg, "fallback", EmptyDict))
         ELSE [pc |-> "return",
               ret |-> Value(FALSE, <<"Docker installation failed: ">> \o r.msg),
               cfg |-> cfg]
    ELSE [pc |-> "return", ret |-> r, cfg |-> cfg]

DockerReturn ==
    /\ pc = "docker_return"
    /\ pc' = install_docker_server_return(ret, server_config).pc
    /\ ret' = install_docker_server_return(ret, server_config).ret
    /\ server_config' = install_docker_server_return(ret, server_config).cfg
    /\ UNCHANGED <<call_vars, aux_vars, env_vars, trace, result, todo, python_cmd>>

\* The steps of a call in progress.
Step ==
    \/ Return
    \/ NpmProbe
    \/ AutoInstallNodejs
    \/ NpmReprobe
    \/ NpmInstall
    \/ NpmConfigure
    \/ GitProbe
    \/ GitClone
    \/ GitNpmInstall
    \/ PythonProbe
    \/ Python3Probe
    \/ PipInstall
    \/ DockerStatus
    \/ EnsureDockerAvailable
    \/ DockerInstall
    \/ DockerStart
    \/ DockerStartCheck
    \/ DockerSystemctl
    \/ DockerRecheck
    \/ DockerInspect
    \/ DockerBuild
    \/ BuildConfigure
    \/ DockerStop
    \/ DockerRm
    \/ DockerRun
    \/ RunConfigure
    \/ DockerPull
    \/ DockerReturn

Next ==
    \/ \E cfg \in Descriptors : InstallServer(cfg)
    \/ CheckAll
    \/ Step

Spec == Init /\ [][Next]_vars

\* ------------------------------------------- installing the same server again
\* install_server is called a second time with the descriptor of the call
\* that has returned; what the first call returned and left behind is kept.
InstallAgain ==
    /\ pc = "done"
    /\ ~first.made
    /\ first' = [made |-> TRUE, result |-> result, files |-> files, trace |-> trace]
    /\ trace' = <<>>
    /\ result' = None
    /\ pc' = Dispatch(server_config).pc
    /\ ret' = Dispatch(server_config).ret
    /\ todo' = <<>>
    /\ python_cmd' = ""
    /\ files0' = files
    /\ UNCHANGED <<aux_vars, platform_system, results, files, server_config>>

\* An npm server is installed and then installed again.
InstallTwiceNext ==
    \/ \E cfg \in NpmDescriptors : InstallServer(cfg)
    \/ InstallAgain
    \/ NpmProbe
    \/ AutoInstallNodejs
    \/ NpmReprobe
    \/ NpmInstall
    \/ NpmConfigure
    \/ Return

InstallTwiceSpec == Init /\ [][InstallTwiceNext]_vars

\* ------------------------------------------------ volume path expansion
\* A volume string is a sequence of tokens: a placeholder or a piece of plain
\* text.  "${MCP_WORKSPACE_PATH:-/srv}" stands for a text that contains
\* "${MCP_WORKSPACE_PATH" without being one of the two forms that are
\* replaced.
WorkspaceDefaultForm == "${MCP_WORKSPACE_PATH:-./workspace}"
WorkspacePlainForm == "${MCP_WORKSPACE_PATH}"
WorkspaceForms == {WorkspaceDefaultForm, WorkspacePlainForm, "${MCP_WORKSPACE_PATH:-/srv}"}
DataDefaultForm == "${MCP_DATA_PATH:-./data}"
DataPlainForm == "${MCP_DATA_PATH}"
DataForms == {DataDefaultForm, DataPlainForm}
PlainTexts == {"/host/data", ":/app/workspace:rw"}
VolumeTokens == WorkspaceForms \cup DataForms \cup PlainTexts

MaxTokens == 2
RECURSIVE SeqsUpTo(_, _)
SeqsUpTo(S, n) ==
    IF n = 0 THEN {<<>>}
    ELSE SeqsUpTo(S, n - 1) \cup {Append(v, t) : v \in SeqsUpTo(S, n - 1), t \in S}
Volumes == SeqsUpTo(VolumeTokens, MaxTokens) \ {<<>>}

\* str(Path.home() / "mcp-workspace") and str(Path.home() / "mcp-data")
default_workspace == "<home>/mcp-workspace"
default_data == "<home>/mcp-data"
Environments ==
    { w @@ d : w \in Opt("MCP_WORKSPACE_PATH", {"/srv/workspace"}),
               d \in Opt("MCP_DATA_PATH", {"/srv/data"}) }

NotExpanded == [kind |-> "none", volume |-> <<>>, created |-> {}]

\* substring in volume
Contains(vol, forms) == \E i \in 1..Len(vol) : vol[i] \in forms
\* volume.replace(form, path)
Replace(vol, form, path) == [i \in 1..Len(vol) |-> IF vol[i] = form THEN path ELSE vol[i]]
\* Path(path).mkdir(parents=True, exist_ok=True) succeeds when the directory
\* exists or can be created.
mkdir(path, dirs, can_create) == path \in dirs \/ can_create

\* Mutant: the default named inside the placeholder is substituted.
expand_volume_path_ShellDefault(vol, env, dirs, mk1, mk2) ==
    LET in_workspace == Contains(vol, WorkspaceForms)
        workspace_path == Get(env, "MCP_WORKSPACE_PATH", "./workspace")
        v1 == IF in_workspace
              THEN Replace(Replace(vol, WorkspaceDefaultForm, workspace_path),
                           WorkspacePlainForm, workspace_path)
              ELSE vol
        d1 == IF in_workspace THEN dirs \cup {workspace_path} ELSE dirs
        in_data == Contains(v1, DataForms)
        data_path == Get(env, "MCP_DATA_PATH", default_data)
        v2 == IF in_data
              THEN Replace(Replace(v1, DataDefaultForm, data_path), DataPlainForm, data_path)
              ELSE v1
        d2 == IF in_data THEN d1 \cup {data_path} ELSE d1
    IN  IF in_workspace /\ ~mkdir(workspace_path, dirs, mk1)
        THEN [kind |-> "raise", volume |-> <<>>, created |-> {}]
        ELSE IF in_data /\ ~mkdir(data_path, d1, mk2)
             THEN [kind |-> "raise", volume |-> <<>>, created |-> d1 \ dirs]
             ELSE [kind |-> "value", volume |-> v2, created |-> d2 \ dirs]

\* _expand_volume_path; mk1 and mk2 say whether the workspace and the data
\* directory can be created.  created is the set of directories made.
expand_volume_path(vol, env, dirs, mk1, mk2) ==
    LET in_workspace == Contains(vol, WorkspaceForms)
        workspace_path == Get(env, "MCP_WORKSPACE_PATH", default_workspace)
        v1 == IF in_workspace
              THEN Replace(Replace(vol, WorkspaceDefaultForm, workspace_path),
                           WorkspacePlainForm, workspace_path)
              ELSE vol
        d1 == IF in_workspace THEN dirs \cup {workspace_path} ELSE dirs
        in_data == Contains(v1, DataForms)
        data_path == Get(env, "MCP_DATA_PATH", default_data)
        v2 == IF in_data
              THEN Replace(Replace(v1, DataDefaultForm, data_path), DataPlainForm, data_path)
              ELSE v1
        d2 == IF in_data THEN d1 \cup {data_path} ELSE d1
    IN  IF in_workspace /\ ~mkdir(workspace_path, dirs, mk1)
        THEN [kind |-> "raise", volume |-> <<>>, created |-> {}]
        ELSE IF in_data /\ ~mkdir(data_path, d1, mk2)
             THEN [kind |-> "raise", volume |-> <<>>, created |-> d1 \ dirs]
             ELSE [kind |-> "value", volume |-> v2, created |-> d2 \ dirs]

VolumeInit ==
    /\ platform_system = "Linux"
    /\ files = [e \in {"cline", "roo"} |-> AbsentFile]
    /\ files0 = files
    /\ InstallIdle
    /\ NodejsIdle
    /\ GuiIdle
    /\ RestIdle
    /\ volume \in Volumes
    /\ environ \in Environments
    /\ directories \in SUBSET {default_workspace, "/srv/workspace"}
    /\ expanded = NotExpanded

ExpandVolumePath ==
    /\ expanded.kind = "none"
    /\ \E mk1 \in BOOLEAN, mk2 \in BOOLEAN :
          LET r == expand_volume_path(volume, environ, directories, mk1, mk2)
          IN  /\ expanded' = r
              /\ directories' = directories \cup r.created
    /\ UNCHANGED <<install_vars, rest_vars, nodejs_vars, gui_vars, volume, environ>>

VolumeNext == ExpandVolumePath

VolumeSpec == VolumeInit /\ [][VolumeNext]_vars

\* ------------------------------------- SystemChecker._install_nodejs
winget_flags ==
    <<"--silent", "--accept-package-agreements", "--accept-source-agreements">>
winget_commands ==
    << <<"winget", "install", "OpenJS.NodeJS.LTS">> \o winget_flags,
       <<"winget", "install", "OpenJS.NodeJS">> \o winget_flags,
       <<"winget", "install", "nodejs">> \o winget_flags >>
WingetVersionCmd == <<"winget", "--version">>
NodeVersionCmd == <<"node", "--version">>

NodejsDict(status, message) == [status |-> status, message |-> message]
NodejsFallback == NodejsDict(FALSE, <<"Node.js auto-installation failed">>)

NodejsLog(events) == nodejs_log' = nodejs_log \o events
NodejsReturns(r) == nodejs_pc' = "done" /\ nodejs_result' = r

\* The loop goes on to the command after the current one; when none is
\* left the call falls through to the manual-installation result.
NextWingetCommand ==
    IF Len(nodejs_todo) > 1
    THEN /\ nodejs_pc' = "winget_install"
         /\ nodejs_todo' = Tail(nodejs_todo)
         /\ UNCHANGED nodejs_result
    ELSE /\ nodejs_todo' = <<>>
         /\ NodejsReturns(NodejsFallback)

NodejsInit ==
    /\ platform_system \in {"Windows", "Linux"}
    /\ files = [e \in {"cline", "roo"} |-> AbsentFile]
    /\ files0 = files
    /\ InstallIdle
    /\ NodejsIdle
    /\ VolumeIdle
    /\ GuiIdle
    /\ RestIdle

install_nodejs ==
    /\ nodejs_pc = "idle"
    /\ IF platform_system = "Windows"
       THEN nodejs_pc' = "winget_check" /\ UNCHANGED nodejs_result
       ELSE NodejsReturns(NodejsFallback)
    /\ UNCHANGED <<install_vars, rest_vars, volume_vars, gui_vars, nodejs_todo, nodejs_log>>

WingetCheck ==
    /\ nodejs_pc = "winget_check"
    /\ \E o \in Outcomes :
          /\ NodejsLog(<<RunEvent(WingetVersionCmd, o)>>)
          /\ CASE o = "ok" ->
                    /\ nodejs_pc' = "winget_install"
                    /\ nodejs_todo' = winget_commands
                    /\ UNCHANGED nodejs_result
               [] o = "nonzero" ->
                    /\ NodejsReturns(NodejsDict(FALSE,
                          <<"Cannot auto-install Node.js (winget not available)">>))
                    /\ UNCHANGED nodejs_todo
               [] OTHER ->
                    /\ NodejsReturns(NodejsDict(FALSE,
                          <<"Node.js installation failed: ", o>>))
                    /\ UNCHANGED nodejs_todo
    /\ UNCHANGED <<install_vars, rest_vars, volume_vars, gui_vars>>

WingetInstall ==
    /\ nodejs_pc = "winget_install"
    /\ \E o \in Outcomes :
          /\ NodejsLog(<<RunEvent(Head(nodejs_todo), o)>>)
          /\ IF o = "ok"
             THEN /\ nodejs_pc' = "node_test"
                  /\ UNCHANGED <<nodejs_todo, nodejs_result>>
             ELSE NextWingetCommand
    /\ UNCHANGED <<install_vars, rest_vars, volume_vars, gui_vars>>

NodeTest ==
    /\ nodejs_pc = "node_test"
    /\ \E o \in Outcomes :
          /\ NodejsLog(<<RunEvent(NodeVersionCmd, o)>>)
          /\ IF o = "ok"
             THEN /\ NodejsReturns(NodejsDict(TRUE,
                        <<"Node.js installed successfully: ", "<version>">>))
                  /\ UNCHANGED nodejs_todo
             ELSE NextWingetCommand
    /\ UNCHANGED <<install_vars, rest_vars, volume_vars, gui_vars>>

NodejsNext ==
    \/ install_nodejs
    \/ WingetCheck
    \/ WingetInstall
    \/ NodeTest

NodejsSpec == NodejsInit /\ [][NodejsNext]_vars

\* ------------------------------------------- the probes of SystemChecker
node_commands == <<"node", "nodejs">>
common_paths ==
    << "%PROGRAMFILES%/nodejs/node.exe", "%PROGRAMFILES(X86)%/nodejs/node.exe",
       "%APPDATA%/npm/node.exe", "%LOCALAPPDATA%/nvs/default/node.exe" >>

\* What "--version" printed: a major version of 16 or more, a smaller one,
\* or text int() cannot parse.
Versions == {"new", "old", "unparsable"}
PathOutcomes == {"ok", "nonzero", "timeout"}

ProbeLog(events) == probe_log' = probe_log \o events
ProbeReturns(r) ==
    /\ probe_pc' = "done"
    /\ probe_todo' = <<>>
    /\ probe_result' = r

\* Every subprocess the probe ran, those of the installation it called
\* included.
ProbeCalls == probe_log \o nodejs_log

ProbeInit ==
    /\ platform_system \in {"Windows", "Linux"}
    /\ files = [e \in {"cline", "roo"} |-> AbsentFile]
    /\ files0 = files
    /\ InstallIdle
    /\ NodejsIdle
    /\ VolumeIdle
    /\ GuiIdle
    /\ RestIdle

check_nodejs ==
    /\ probe_pc = "idle"
    /\ probe' = "node_js"
    /\ probe_pc' = "node_command"
    /\ probe_todo' = node_commands
    /\ UNCHANGED <<install_vars, aux_vars_but_checker, probe_log, probe_result,
                   checks_todo, check_all_pc, pass_log, summary>>

\* "continue" in the loop over node_commands; after the loop the common
\* installation paths are tried on Windows, and then, auto_fix being set,
\* _install_nodejs is called.
NextNodeCommand ==
    /\ UNCHANGED probe_result
    /\ IF Len(probe_todo) > 1
       THEN probe_pc' = "node_command" /\ probe_todo' = Tail(probe_todo)
       ELSE IF platform_system = "Windows"
            THEN probe_pc' = "common_paths" /\ probe_todo' = common_paths
            ELSE probe_pc' = "install" /\ probe_todo' = <<>>

\* One iteration of the loop up to the npm query: [node_cmd, "--version"].
NodeCommand ==
    /\ probe_pc = "node_command"
    /\ \E o \in Outcomes :
          /\ ProbeLog(<<RunEvent(<<Head(probe_todo), "--version">>, o)>>)
          /\ IF o = "ok"
             THEN \E v \in Versions :
                     CASE v = "new" ->
                            /\ probe_pc' = "npm_probe"
                            /\ UNCHANGED <<probe_todo, probe_result>>
                       [] v = "old" ->
                            /\ probe_pc' = "install"
                            /\ probe_todo' = <<>>
                            /\ UNCHANGED probe_result
                       [] OTHER ->
                            ProbeReturns(NodejsDict(TRUE,
                                <<"Node.js ", "<version>", " detected (version parsing failed)">>))
             ELSE NextNodeCommand
    /\ UNCHANGED <<install_vars, aux_vars_but_checker, probe,
                   checks_todo, check_all_pc, pass_log, summary>>

\* "npm --version" inside the same try block: an exception of it is caught
\* by the handlers of the iteration, which continue the loop.
NodeNpmProbe ==
    /\ probe_pc = "npm_probe"
    /\ \E o \in Outcomes :
          /\ ProbeLog(<<RunEvent(NpmVersionCmd, o)>>)
          /\ IF o \in {"ok", "nonzero"}
             THEN ProbeReturns(NodejsDict(TRUE,
                      <<"Node.js ", "<version>", " is installed">>))
             ELSE NextNodeCommand
    /\ UNCHANGED <<install_vars, aux_vars_but_checker, probe,
                   checks_todo, check_all_pc, pass_log, summary>>

\* One iteration of the loop over common_paths.
CommonPath ==
    /\ probe_pc = "common_paths"
    /\ \E exists \in BOOLEAN, o \in PathOutcomes :
          /\ ProbeLog(IF exists
                      THEN <<RunEvent(<<Head(probe_todo), "--version">>, o)>>
                      ELSE <<>>)
          /\ IF exists /\ o = "ok"
             THEN ProbeReturns(NodejsDict(TRUE,
                      <<"Node.js ", "<version>", " found at ", Head(probe_todo)>>))
             ELSE /\ UNCHANGED probe_result
                  /\ IF Len(probe_todo) > 1
                     THEN probe_pc' = "common_paths" /\ probe_todo' = Tail(probe_todo)
                     ELSE probe_pc' = "install" /\ probe_todo' = <<>>
    /\ UNCHANGED <<install_vars, aux_vars_but_checker, probe,
                   checks_todo, check_all_pc, pass_log, summary>>

\* "return self._install_nodejs()": the installation begins.
AutoFix ==
    /\ probe_pc = "install"
    /\ nodejs_pc = "idle"
    /\ probe_pc' = "installing"
    /\ IF platform_system = "Windows"
       THEN nodejs_pc' = "winget_check" /\ UNCHANGED nodejs_result
       ELSE NodejsReturns(NodejsFallback)
    /\ UNCHANGED <<install_vars, volume_vars, gui_vars, writer_vars, catalog_vars,
                   dialog_vars, nodejs_todo, nodejs_log, probe, probe_todo, probe_log,
                   probe_result, checks_todo, check_all_pc, pass_log, summary>>

\* The installation returned and check_nodejs returns its dict.
AutoFixReturn ==
    /\ probe_pc = "installing"
    /\ nodejs_pc = "done"
    /\ probe_pc' = "done"
    /\ probe_result' = nodejs_result
    /\ UNCHANGED <<install_vars, aux_vars_but_checker, probe, probe_todo, probe_log,
                   checks_todo, check_all_pc, pass_log, summary>>

install_winget ==
    NodejsDict(FALSE, <<"winget auto-installation not implemented">>)

check_winget ==
    /\ probe_pc = "idle"
    /\ probe' = "winget"
    /\ IF platform_system # "Windows"
       THEN /\ ProbeReturns(NodejsDict(TRUE, <<"winget not applicable (non-Windows)">>))
            /\ UNCHANGED probe_log
       ELSE \E o \in Outcomes :
               /\ ProbeLog(<<RunEvent(WingetVersionCmd, o)>>)
               /\ ProbeReturns(IF o = "ok"
                               THEN NodejsDict(TRUE,
                                        <<"winget ", "<version>", " is available">>)
                               ELSE install_winget)
    /\ UNCHANGED <<install_vars, aux_vars_but_checker,
                   checks_todo, check_all_pc, pass_log, summary>>

CheckDocker ==
    /\ probe_pc = "idle"
    /\ probe' = "docker"
    /\ \E o1 \in Outcomes, o2 \in Outcomes :
          /\ ProbeLog(check_docker_calls(o1, o2))
          /\ ProbeReturns(check_docker(o1, o2))
    /\ UNCHANGED <<install_vars, aux_vars_but_checker,
                   checks_todo, check_all_pc, pass_log, summary>>

ProbeNext ==
    \/ check_nodejs
    \/ NodeCommand
    \/ NodeNpmProbe
    \/ CommonPath
    \/ AutoFix
    \/ WingetCheck
    \/ WingetInstall
    \/ NodeTest
    \/ AutoFixReturn
    \/ check_winget
    \/ CheckDocker

ProbeSpec == ProbeInit /\ [][ProbeNext]_vars

\* ------------------------------------------- check_all and get_summary
checks ==
    <<"python", "platform", "disk_space", "internet", "node_js", "winget",
      "ides", "docker">>
critical_checks == <<"python", "platform", "internet", "node_js">>

\* How a call of a check function ends: it returns a dict whose status is
\* True, one whose status is False, or it raises.
CheckOutcomes == {"pass", "fail", "raise"}

\* The dicts check_func() may return.
CheckDicts(check_name, o) ==
    IF check_name = "docker"
    THEN { d \in {check_docker(o1, o2) : o1 \in DockerProbeOutcomes,
                                        o2 \in DockerProbeOutcomes} :
              d["status"] = (o = "pass") }
    ELSE { NodejsDict(o = "pass", <<check_name, o>>) }

\* The entry the except branch of the loop stores.
CheckFailed(check_name) == NodejsDict(FALSE, <<"Check failed: ", check_name>>)

CheckAllInit ==
    /\ platform_system \in {"Windows", "Linux"}
    /\ files = [e \in {"cline", "roo"} |-> AbsentFile]
    /\ files0 = files
    /\ InstallIdle
    /\ NodejsIdle
    /\ VolumeIdle
    /\ GuiIdle
    /\ RestIdle

check_all ==
    /\ check_all_pc \in {"idle", "returned"}
    /\ check_all_pc' = "running"
    /\ checks_todo' = checks
    /\ pass_log' = <<>>
    /\ summary' = NoSummary
    /\ UNCHANGED <<install_vars, aux_vars_but_checker,
                   probe, probe_pc, probe_todo, probe_log, probe_result>>

\* Mutant: a check that raises ends the pass.
RunCheck_Abort ==
    /\ check_all_pc = "running"
    /\ LET check_name == Head(checks_todo)
       IN  \E o \in CheckOutcomes :
              /\ pass_log' = Append(pass_log, [check |-> check_name, out |-> o])
              /\ IF o = "raise"
                 THEN /\ UNCHANGED results
                      /\ checks_todo' = <<>>
                      /\ check_all_pc' = "returned"
                 ELSE /\ \E d \in CheckDicts(check_name, o) :
                            results' = (check_name :> d) @@ results
                      /\ checks_todo' = Tail(checks_todo)
                      /\ check_all_pc' = IF Len(checks_todo) > 1 THEN "running" ELSE "returned"
    /\ UNCHANGED <<platform_system, files, pc, server_config, trace, ret, result,
                   todo, python_cmd, files0, first, aux_vars_but_checker,
                   probe, probe_pc, probe_todo, probe_log, probe_result, summary>>

\* One iteration of the loop of check_all: the result of check_func() is
\* stored under the check's name, and when the call raised, a status-False
\* entry is stored instead; the loop then goes on.
RunCheck ==
    /\ check_all_pc = "running"
    /\ LET check_name == Head(checks_todo)
       IN  \E o \in CheckOutcomes :
              /\ pass_log' = Append(pass_log, [check |-> check_name, out |-> o])
              /\ IF o = "raise"
                 THEN results' = (check_name :> CheckFailed(check_name)) @@ results
                 ELSE \E d \in CheckDicts(check_name, o) :
                         results' = (check_name :> d) @@ results
    /\ checks_todo' = Tail(checks_todo)
    /\ check_all_pc' = IF Len(checks_todo) > 1 THEN "running" ELSE "returned"
    /\ UNCHANGED <<platform_system, files, pc, server_config, trace, ret, result,
                   todo, python_cmd, files0, first, aux_vars_but_checker,
                   probe, probe_pc, probe_todo, probe_log, probe_result, summary>>

Passed(res) == { k \in DOMAIN res : res[k]["status"] }
CriticalFailed(res) ==
    SelectSeq(critical_checks, LAMBDA c : c \in DOMAIN res /\ ~res[c]["status"])

get_summary(res) ==
    IF res = EmptyDict
    THEN [status |-> "not_run", passed |-> 0, total |-> 0, critical_failed |-> <<>>]
    ELSE LET passed == Cardinality(Passed(res))
             total == Cardinality(DOMAIN res)
             critical_failed == CriticalFailed(res)
         IN  IF critical_failed # <<>>
             THEN [status |-> "failed", passed |-> passed, total |-> total,
                   critical_failed |-> critical_failed]
             ELSE IF passed = total
                  THEN [status |-> "passed", passed |-> passed, total |-> total,
                        critical_failed |-> <<>>]
                  ELSE [status |-> "partial", passed |-> passed, total |-> total,
                        critical_failed |-> <<>>]

\* get_summary is called while no pass is running.
GetSummary ==
    /\ check_all_pc \in {"idle", "returned"}
    /\ summary = NoSummary
    /\ summary' = get_summary(results)
    /\ UNCHANGED <<install_vars, aux_vars_but_checker, probe, probe_pc, probe_todo,
                   probe_log, probe_result, checks_todo, check_all_pc, pass_log>>

CheckAllNext ==
    \/ check_all
    \/ RunCheck
    \/ GetSummary

CheckAllSpec == CheckAllInit /\ [][CheckAllNext]_vars

\* ------------------------- the Install button of a discovered server
MaxButtons == 3
MaxThreads == 2

Button(state, text, command) ==
    [exists |-> TRUE, state |-> state, text |-> text, command |-> command]

\* _create_server_entry: the button made for the entry from the
\* installation status of its server.
create_server_entry(is_installed) ==
    IF is_installed
    THEN Button("normal", "Installed", "reinstall")
    ELSE Button("normal", "[+] Install", "install")

\* _populate_single_list: the widgets of the list are destroyed and the
\* entry is created anew.
populate_list(buttons, is_installed) ==
    Append([i \in 1..Len(buttons) |-> [buttons[i] EXCEPT !.exists = FALSE]],
           create_server_entry(is_installed))

Configure(button, text, state) ==
    [op |-> "configure", button |-> button, text |-> text, state |-> state]
PopulateLocal == [op |-> "populate", button |-> 0, text |-> "", state |-> ""]
DiscoveryCompleted == [op |-> "completed", button |-> 0, text |-> "", state |-> ""]

\* Buttons made so far and those the scheduled callbacks will make.
Populations ==
    Len(install_buttons)
        + Cardinality({i \in 1..Len(ui_queue) : ui_queue[i].op = "populate"})
        + (IF refresh_pc = "discovering" THEN 1 ELSE 0)

ButtonInit ==
    /\ platform_system \in {"Windows", "Linux"}
    /\ files = [e \in {"cline", "roo"} |-> AbsentFile]
    /\ files0 = files
    /\ InstallIdle
    /\ NodejsIdle
    /\ VolumeIdle
    /\ GuiIdle
    /\ WriterIdle
    /\ CatalogIdle
    /\ CheckerIdle
    /\ DlgIdle
    /\ server_installed \in BOOLEAN
    /\ install_buttons = <<create_server_entry(server_installed)>>
    /\ install_threads = <<>>
    /\ ui_queue = <<>>
    /\ refresh_pc = "idle"

ButtonFrame ==
    UNCHANGED <<install_vars, nodejs_vars, volume_vars, gui_vars, writer_vars,
                catalog_vars, checker_vars, dlg_vars>>

\* "Load Local Only": the local list is populated on the UI thread.
load_local_only ==
    /\ refresh_pc = "idle"
    /\ Populations < MaxButtons
    /\ install_buttons' = populate_list(install_buttons, server_installed)
    /\ UNCHANGED <<install_threads, ui_queue, server_installed, refresh_pc>>
    /\ ButtonFrame

\* "Refresh All": both refresh buttons are disabled and the discovery
\* thread is started.
RefreshAll ==
    /\ refresh_pc = "idle"
    /\ Populations < MaxButtons
    /\ refresh_pc' = "discovering"
    /\ UNCHANGED <<install_buttons, install_threads, ui_queue, server_installed>>
    /\ ButtonFrame

\* _discover_servers on its thread: the population of the local list and
\* _discovery_completed are scheduled on the UI thread.
discover_servers_thread ==
    /\ refresh_pc = "discovering"
    /\ ui_queue' = ui_queue \o <<PopulateLocal, DiscoveryCompleted>>
    /\ refresh_pc' = "scheduled"
    /\ UNCHANGED <<install_buttons, install_threads, server_installed>>
    /\ ButtonFrame

\* A click on the Install button b: _install_directly_with_button_feedback.
ClickInstall(b) ==
    /\ install_buttons[b].exists
    /\ install_buttons[b].state = "normal"
    /\ install_buttons[b].command = "install"
    /\ Len(install_threads) < MaxThreads
    /\ install_buttons' = [install_buttons EXCEPT ![b].state = "disabled",
                                                  ![b].text = "Installing..."]
    /\ install_threads' = Append(install_threads, [button |-> b, pc |-> "running"])
    /\ UNCHANGED <<ui_queue, server_installed, refresh_pc>>
    /\ ButtonFrame

\* install_server returns on thread t, which schedules the update of its
\* button.
InstallReturns(t) ==
    /\ install_threads[t].pc = "running"
    /\ \E success \in BOOLEAN :
          /\ install_threads' = [install_threads EXCEPT
                                    ![t].pc = IF success THEN "succeeded" ELSE "failed"]
          /\ server_installed' = (server_installed \/ success)
          /\ ui_queue' = Append(ui_queue,
                IF success
                THEN Configure(install_threads[t].button, "Installed", "disabled")
                ELSE Configure(install_threads[t].button, "Failed", "normal"))
    /\ UNCHANGED <<install_buttons, refresh_pc>>
    /\ ButtonFrame

\* The UI thread runs the oldest scheduled callback; configuring a
\* destroyed button changes nothing on the screen.
RunCallback ==
    /\ ui_queue # <<>>
    /\ LET c == Head(ui_queue)
       IN  /\ install_buttons' =
                 CASE c.op = "configure" ->
                        [install_buttons EXCEPT ![c.button].state = c.state,
                                                ![c.button].text = c.text]
                   [] c.op = "populate" -> populate_list(install_buttons, server_installed)
                   [] OTHER -> install_buttons
           /\ refresh_pc' = IF c.op = "completed" THEN "idle" ELSE refresh_pc
    /\ ui_queue' = Tail(ui_queue)
    /\ UNCHANGED <<install_threads, server_installed>>
    /\ ButtonFrame

ButtonNext ==
    \/ load_local_only
    \/ RefreshAll
    \/ discover_servers_thread
    \/ \E b \in 1..Len(install_buttons) : ClickInstall(b)
    \/ \E t \in 1..Len(install_threads) : InstallReturns(t)
    \/ RunCallback

ButtonSpec == ButtonInit /\ [][ButtonNext]_vars

\* ------------------------------------------------- InstallationDialog
MaxServers == 3
SelectedNames == {"filesystem", "github", "playwright"}

\* The lists _install_selected hands over: the selected servers, none twice
\* and at least one.
ServerLists ==
    { l \in UNION { [1..n -> SelectedNames] : n \in 1..MaxServers } :
         \A i, j \in 1..Len(l) : l[i] = l[j] => i = j }

Successful(rs) == Cardinality({i \in 1..Len(rs) : rs[i].success})

DlgInit ==
    /\ platform_system \in {"Windows", "Linux"}
    /\ files = [e \in {"cline", "roo"} |-> AbsentFile]
    /\ files0 = files
    /\ InstallIdle
    /\ NodejsIdle
    /\ VolumeIdle
    /\ GuiIdle
    /\ WriterIdle
    /\ CatalogIdle
    /\ CheckerIdle
    /\ ButtonIdle
    /\ dlg_servers \in ServerLists
    /\ dlg_open = TRUE
    /\ installing = FALSE
    /\ start_btn = "normal"
    /\ close_btn = "disabled"
    /\ run_pc = "none"
    /\ current_index = 0
    /\ dlg_results = <<>>
    /\ dlg_queue = <<>>
    /\ dlg_runs = 0
    /\ completed = NotCompleted

DlgFrame ==
    UNCHANGED <<install_vars, nodejs_vars, volume_vars, gui_vars, writer_vars,
                catalog_vars, checker_vars, button_vars, dlg_servers>>

\* A click on "Start Installation".
start_installation ==
    /\ dlg_open
    /\ start_btn = "normal"
    /\ installing' = TRUE
    /\ start_btn' = "disabled"
    /\ run_pc' = "loop"
    /\ dlg_runs' = dlg_runs + 1
    /\ UNCHANGED <<dlg_open, close_btn, current_index, dlg_results, dlg_queue, completed>>
    /\ DlgFrame

\* _install_servers: an iteration of the loop begins and install_server is
\* called for the next server of the list.
BeginInstall ==
    /\ run_pc = "loop"
    /\ Len(dlg_results) < Len(dlg_servers)
    /\ current_index' = Len(dlg_results)
    /\ run_pc' = "install_server"
    /\ UNCHANGED <<dlg_open, installing, start_btn, close_btn, dlg_results, dlg_queue,
                   dlg_runs, completed>>
    /\ DlgFrame

\* install_server returned and its result is appended to self.results.
RecordResult ==
    /\ run_pc = "install_server"
    /\ \E success \in BOOLEAN :
          dlg_results' = Append(dlg_results,
                                [server |-> dlg_servers[current_index + 1],
                                 success |-> success])
    /\ run_pc' = "loop"
    /\ UNCHANGED <<dlg_open, installing, start_btn, close_btn, current_index, dlg_queue,
                   dlg_runs, completed>>
    /\ DlgFrame

\* After the loop the thread schedules _installation_complete and ends.
ScheduleComplete ==
    /\ run_pc = "loop"
    /\ Len(dlg_results) = Len(dlg_servers)
    /\ dlg_queue' = Append(dlg_queue, "installation_complete")
    /\ run_pc' = "done"
    /\ UNCHANGED <<dlg_open, installing, start_btn, close_btn, current_index, dlg_results,
                   dlg_runs, completed>>
    /\ DlgFrame

\* _installation_complete on the UI thread. With the window destroyed the
\* first widget call raises, after self.installing was cleared.
installation_complete ==
    /\ dlg_queue # <<>>
    /\ dlg_queue' = Tail(dlg_queue)
    /\ installing' = FALSE
    /\ LET successful == Successful(dlg_results)
           failed == Len(dlg_results) - successful
       IN  completed' = [ran |-> TRUE, results |-> dlg_results,
                         successful |-> IF dlg_open THEN successful ELSE 0,
                         failed |-> IF dlg_open THEN failed ELSE 0]
    /\ close_btn' = IF dlg_open THEN "normal" ELSE close_btn
    /\ UNCHANGED <<dlg_open, start_btn, run_pc, current_index, dlg_results, dlg_runs>>
    /\ DlgFrame

\* A click on "Close": _close_dialog.
close_dialog ==
    /\ dlg_open
    /\ close_btn = "normal"
    /\ dlg_open' = (dlg_open /\ installing)
    /\ UNCHANGED <<installing, start_btn, close_btn, run_pc, current_index, dlg_results,
                   dlg_queue, dlg_runs, completed>>
    /\ DlgFrame

\* The close request of the window manager: the dialog registers no
\* WM_DELETE_WINDOW handler, so its window is destroyed.
WindowClose ==
    /\ dlg_open
    /\ dlg_open' = FALSE
    /\ UNCHANGED <<installing, start_btn, close_btn, run_pc, current_index, dlg_results,
                   dlg_queue, dlg_runs, completed>>
    /\ DlgFrame

DlgNext ==
    \/ start_installation
    \/ BeginInstall
    \/ RecordResult
    \/ ScheduleComplete
    \/ installation_complete
    \/ close_dialog
    \/ WindowClose

DlgSpec == DlgInit /\ [][DlgNext]_vars

\* ----------------------------------------------------- server discovery
Sources == {"local", "github", "npm", "official"}
Server(type, package) == [type |-> type, package |-> package]

\* What json.load may have put into self.servers: the default catalogue, a
\* dict without "servers", a dict whose "servers" is a list, or a list.
Catalogues ==
    { DefaultCatalogue,
      [kind |-> "dict", servers_kind |-> "missing", values |-> <<>>],
      [kind |-> "dict", servers_kind |-> "list", values |-> DefaultCatalogue.values],
      [kind |-> "list", servers_kind |-> "missing", values |-> <<>>] }

\* list(self.servers.get("servers", {}).values())
local_servers(catalogue) ==
    IF catalogue.kind = "dict" /\ catalogue.servers_kind \in {"dict", "missing"}
    THEN [raised |-> FALSE, servers |-> catalogue.values]
    ELSE [raised |-> TRUE, servers |-> <<>>]

\* What requests.get gives: an exception (status "timeout" or "error") or a
\* response with a status code and a body; the items of the body are
\* "good" or, lacking what the loop reads from them, "bad".
Response(status, json, items) == [status |-> status, json |-> json, items |-> items]
Responses(source) ==
    { Response("timeout", FALSE, <<>>),
      Response("404", FALSE, <<>>),
      Response("200", TRUE, <<"good">>) }
    \cup ( IF source = "official"
           THEN { Response("error", FALSE, <<>>) }
           ELSE { Response("200", FALSE, <<>>),
                  Response("200", TRUE, <<"good", "bad">>) } )

ServerOf(source) ==
    CASE source = "github" -> Server("git", "")
      [] source = "npm" -> Server("npm", "<name>")
      [] OTHER -> Server("npm", "@modelcontextprotocol/server-<name>")

\* The loop over the items: an item that cannot be read raises, and the
\* handler around the whole request keeps what was appended before.
RECURSIVE ParseItems(_, _, _)
ParseItems(source, items, servers) ==
    IF items = <<>> THEN [raised |-> FALSE, servers |-> servers]
    ELSE IF Head(items) = "bad" /\ source # "official"
         THEN [raised |-> TRUE, servers |-> servers]
         ELSE ParseItems(source, Tail(items), Append(servers, ServerOf(source)))

\* _discover_github_servers, _discover_npm_servers, _discover_official_servers
discover_source(source, response) ==
    IF response.status \in {"timeout", "error"}
    THEN [raised |-> TRUE, servers |-> <<>>]
    ELSE IF response.status # "200"
         THEN [raised |-> FALSE, servers |-> <<>>]
         ELSE IF source # "official" /\ ~response.json
              THEN [raised |-> TRUE, servers |-> <<>>]
              ELSE ParseItems(source, response.items, <<>>)

Did(thread, op, arg, out) == [thread |-> thread, op |-> op, arg |-> arg, out |-> out]
Widget(thread, arg) == Did(thread, "widget", arg, "")
\* The request of a source and, when its handler ran, the warning it logs.
Query(thread, source, response) ==
    {Did(thread, "http", source, response.status)}
    \cup ( IF discover_source(source, response).raised
           THEN {Did(thread, "warning", source, "")}
           ELSE {} )

OnlyLocal(servers) ==
    [s \in Sources |-> IF s = "local" THEN servers ELSE <<>>]

\* MCPServerManager.discover_servers, up to the first request.
discover_servers ==
    /\ disc_caller = "none"
    /\ disc_pc = "idle"
    /\ disc_caller' = "manager"
    /\ LET l == local_servers(self_servers)
       IN  IF l.raised
           THEN /\ disc_pc' = "raised"
                /\ UNCHANGED <<discovered, disc_todo>>
           ELSE /\ disc_pc' = "sources"
                /\ discovered' = OnlyLocal(l.servers)
                /\ disc_todo' = <<"github", "npm", "official">>
    /\ UNCHANGED <<install_vars, rest_vars, nodejs_vars, volume_vars, self_servers,
                   discovered_servers, worker_pc, dialog_open, after_queue,
                   gui_log>>

\* One of its three requests; after the last one the dict is returned.
DiscoverSource ==
    /\ disc_caller = "manager"
    /\ disc_pc = "sources"
    /\ \E response \in Responses(Head(disc_todo)) :
          LET source == Head(disc_todo)
              found == discover_source(source, response)
          IN  /\ discovered' = [discovered EXCEPT ![source] = found.servers]
              /\ gui_log' = gui_log \cup Query("caller", source, response)
    /\ disc_todo' = Tail(disc_todo)
    /\ disc_pc' = IF Tail(disc_todo) = <<>> THEN "done" ELSE "sources"
    /\ UNCHANGED <<install_vars, rest_vars, nodejs_vars, volume_vars, self_servers,
                   disc_caller, discovered_servers, worker_pc, dialog_open,
                   after_queue>>

\* ------------------------------------------------ the threads of the GUI
Callback(fn, source, servers) == [fn |-> fn, source |-> source, servers |-> servers]
WidgetUpdate(arg) == Callback("widget", arg, <<>>)
Populate(source, servers) == Callback("populate", source, servers)
OpenDialog == Callback("open_dialog", "", <<>>)

After(thread, callbacks) ==
    {Did(thread, "after", callbacks[i].fn, callbacks[i].source) :
        i \in 1..Len(callbacks)}

\* get_server_installation_status, called for the entry of each server:
\* an npm server with a package makes get_installed_servers run npm.
installation_status(thread, server) ==
    IF server.type = "npm" /\ server.package # ""
    THEN {Did(thread, "subprocess", "npm list -g", "")}
    ELSE {}

\* _populate_single_list on the given thread.
populate_single_list(thread, source, servers) ==
    {Widget(thread, source)}
    \cup UNION { installation_status(thread, servers[i]) : i \in 1..Len(servers) }

\* run_in_thread's targets.
Targets == {"_run_server_discovery", "_run_system_check"}

\* A button handler of the main window: it updates the log and the status
\* bar and starts the thread.
clicked ==
    /\ worker_pc = "none"
    /\ \E func \in Targets : worker_pc' = func
    /\ gui_log' = gui_log \cup {Widget("ui", "log_text"), Widget("ui", "status_var")}
    /\ UNCHANGED <<install_vars, rest_vars, nodejs_vars, volume_vars, self_servers,
                   disc_caller, disc_pc, disc_todo, discovered,
                   discovered_servers, dialog_open, after_queue>>

\* run_in_thread's wrapper, on the thread it started: the target, then the
\* finally clause.
wrapper ==
    /\ worker_pc \in Targets
    /\ worker_pc' = "finished"
    /\ IF worker_pc = "_run_server_discovery"
       THEN /\ after_queue' = Append(after_queue, OpenDialog)
            /\ gui_log' = gui_log
                  \cup {Widget("worker", "log_text")}
                  \cup After("worker", <<OpenDialog>>)
                  \cup {Widget("worker", "progress_bar"), Widget("worker", "status_var")}
       ELSE /\ UNCHANGED after_queue
            /\ gui_log' = gui_log
                  \cup {Widget("worker", "log_text"),
                        Did("worker", "subprocess", "check_all", ""),
                        Widget("worker", "sys_info_text")}
                  \cup {Widget("worker", "progress_bar"), Widget("worker", "status_var")}
    /\ UNCHANGED <<install_vars, rest_vars, nodejs_vars, volume_vars, self_servers,
                   disc_caller, disc_pc, disc_todo, discovered,
                   discovered_servers, dialog_open>>

\* ServerDiscoveryDialog.__init__ with _load_local_only, on the thread that
\* runs the callback; the docker check is the only step of its thread.
open_dialog(thread) ==
    LET l == local_servers(self_servers)
    IN  /\ dialog_open' = TRUE
        /\ discovered_servers' =
              IF l.raised THEN EmptyDict ELSE OnlyLocal(l.servers)
        /\ gui_log' = gui_log
              \cup {Widget(thread, "dialog"),
                    Did("docker_check", "subprocess", "docker", "")}
              \cup ( IF l.raised
                     THEN {Widget(thread, "messagebox")}
                     ELSE populate_single_list(thread, "local", l.servers)
                          \cup UNION { populate_single_list(thread, s, <<>>) :
                                          s \in Sources \ {"local"} } )

\* The UI thread runs the oldest scheduled callback.
RunAfter ==
    /\ after_queue # <<>>
    /\ after_queue' = Tail(after_queue)
    /\ LET cb == Head(after_queue)
       IN  CASE cb.fn = "open_dialog" -> open_dialog("ui")
             [] cb.fn = "populate" ->
                   /\ gui_log' = gui_log
                         \cup populate_single_list("ui", cb.source, cb.servers)
                   /\ UNCHANGED <<dialog_open, discovered_servers>>
             [] OTHER ->
                   /\ gui_log' = gui_log \cup {Widget("ui", cb.source)}
                   /\ UNCHANGED <<dialog_open, discovered_servers>>
    /\ UNCHANGED <<install_vars, rest_vars, nodejs_vars, volume_vars, self_servers,
                   disc_caller, disc_pc, disc_todo, discovered, worker_pc>>

\* _start_discovery, the handler of the dialog's refresh button.
start_discovery ==
    /\ dialog_open
    /\ disc_caller = "none"
    /\ disc_pc = "idle"
    /\ disc_caller' = "dialog"
    /\ disc_pc' = "local"
    /\ discovered_servers' = EmptyDict
    /\ gui_log' = gui_log \cup {Widget("ui", "status_label"), Widget("ui", "progress_bar")}
    /\ UNCHANGED <<install_vars, rest_vars, nodejs_vars, volume_vars, self_servers,
                   disc_todo, discovered, worker_pc, dialog_open, after_queue>>

\* _discover_servers on its thread, up to the first request.
DialogLocal ==
    /\ disc_caller = "dialog"
    /\ disc_pc = "local"
    /\ disc_pc' = "sources"
    /\ disc_todo' = <<"official", "github", "npm">>
    /\ LET l == local_servers(self_servers)
           callbacks ==
              <<WidgetUpdate("progress_bar"), WidgetUpdate("status_label")>>
              \o ( IF l.raised THEN <<>>
                   ELSE <<WidgetUpdate("progress_bar"), Populate("local", l.servers)>> )
       IN  /\ discovered' = OnlyLocal(l.servers)
           /\ after_queue' = after_queue \o callbacks
           /\ gui_log' = gui_log \cup After("discovery", callbacks)
    /\ UNCHANGED <<install_vars, rest_vars, nodejs_vars, volume_vars, self_servers,
                   disc_caller, discovered_servers, worker_pc, dialog_open>>

\* One iteration of its loop over the online sources; after the last one
\* the dict is stored and the completion is scheduled.
DialogSource ==
    /\ disc_caller = "dialog"
    /\ disc_pc = "sources"
    /\ \E response \in Responses(Head(disc_todo)) :
          LET source == Head(disc_todo)
              found == discover_source(source, response)
              last == Tail(disc_todo) = <<>>
              merged == [discovered EXCEPT ![source] = found.servers]
              callbacks ==
                 <<WidgetUpdate("status_label"), WidgetUpdate("progress_bar"),
                   Populate(source, found.servers)>>
                 \o ( IF last THEN <<WidgetUpdate("completed")>> ELSE <<>> )
          IN  /\ discovered' = merged
              /\ discovered_servers' = IF last THEN merged ELSE discovered_servers
              /\ disc_pc' = IF last THEN "done" ELSE "sources"
              /\ after_queue' = after_queue \o callbacks
              /\ gui_log' = gui_log
                    \cup Query("discovery", source, response)
                    \cup After("discovery", callbacks)
    /\ disc_todo' = Tail(disc_todo)
    /\ UNCHANGED <<install_vars, rest_vars, nodejs_vars, volume_vars, self_servers,
                   disc_caller, worker_pc, dialog_open>>

GuiInit ==
    /\ platform_system = "Linux"
    /\ files = [e \in {"cline", "roo"} |-> AbsentFile]
    /\ files0 = files
    /\ InstallIdle
    /\ NodejsIdle
    /\ VolumeIdle
    /\ RestIdle
    /\ self_servers \in Catalogues
    /\ disc_caller = "none"
    /\ disc_pc = "idle"
    /\ disc_todo = <<>>
    /\ discovered = EmptyDict
    /\ discovered_servers = EmptyDict
    /\ worker_pc = "none"
    /\ dialog_open = FALSE
    /\ after_queue = <<>>
    /\ gui_log = {}

GuiNext ==
    \/ discover_servers
    \/ DiscoverSource
    \/ clicked
    \/ wrapper
    \/ RunAfter
    \/ start_discovery
    \/ DialogLocal
    \/ DialogSource

GuiSpec == GuiInit /\ [][GuiNext]_vars

\* ------------------- concurrent calls of add_server_to_extension
\* The server each call adds: different names, neither in the file yet
\* unless the file holds an older entry for the first.
VscodeConfig(name) ==
    ("name" :> name) @@ ("command" :> "npx") @@ ("args" :> <<name>>)
ServerOfWriter == [w \in Writers |-> VscodeConfig(IF w = 1 THEN "A" ELSE "B")]
OldEntry == [command |-> "node", args |-> <<"old">>, env |-> EmptyDict]

\* Settings files a call may find.  An unparseable file may hold entries
\* all the same (a trailing comma, a comment): json.load rejects the text.
UnparseableFile == FileOf("invalid", "map", ("existing" :> OldEntry), TRUE)
PriorFiles ==
    { AbsentFile, UnparseableFile, NonObjectFile, BadServersFile,
      FileOf("object", "missing", EmptyDict, TRUE),
      FileOf("object", "map", ("existing" :> OldEntry), TRUE),
      FileOf("object", "map", ("A" :> OldEntry) @@ ("existing" :> OldEntry), FALSE) }
Extensions == {"cline", "roo", "claude_desktop"}

\* Mutant: the store keeps the entries that are in the file by now.
stored_Merging(ext, server, seen, disk, s) ==
    LET r == add_server_to_extension(ext, server, seen, s)
    IN  IF r.out = "raise" \/ ext \notin extension_configs \/ s = "open_failed"
        THEN disk
        ELSE IF r.out = "true"
             THEN [r.file EXCEPT !.servers = r.file.servers @@ disk.servers]
             ELSE r.file

\* The file after the call that read `seen` has come to its end: nothing is
\* written when the call raised before saving, when the extension is not a
\* known one, or when the file could not be opened for writing.
stored(ext, server, seen, disk, s) ==
    LET r == add_server_to_extension(ext, server, seen, s)
    IN  IF r.out = "raise" \/ ext \notin extension_configs \/ s = "open_failed"
        THEN disk
        ELSE r.file

WriterInit ==
    /\ platform_system = "Linux"
    /\ files = [e \in {"cline", "roo"} |-> AbsentFile]
    /\ files0 = files
    /\ InstallIdle
    /\ NodejsIdle
    /\ VolumeIdle
    /\ GuiIdle
    /\ CatalogIdle
    /\ CheckerIdle
    /\ DialogIdle
    /\ settings \in PriorFiles
    /\ settings0 = settings
    /\ extension \in Extensions
    /\ writer = [w \in Writers |-> NotCalled]
    /\ writer_log = <<>>

\* get_extension_config of one call: the file is read.
LoadConfig(w) ==
    /\ writer[w].pc = "idle"
    /\ writer' = [writer EXCEPT ![w] = [pc |-> "loaded", seen |-> settings, out |-> "none"]]
    /\ writer_log' = Append(writer_log, <<"load", w>>)
    /\ UNCHANGED <<install_vars, nodejs_vars, volume_vars, gui_vars,
                   catalog_vars, checker_vars, dialog_vars, settings, settings0, extension>>

\* The rest of the call: the entry is set in what was read and
\* _save_extension_config writes the whole of it.
StoreConfig(w) ==
    /\ writer[w].pc = "loaded"
    /\ \E s \in SaveOutcomes :
          LET r == add_server_to_extension(extension, ServerOfWriter[w], writer[w].seen, s)
          IN  /\ writer' = [writer EXCEPT ![w].pc = "done", ![w].out = r.out]
              /\ settings' = stored(extension, ServerOfWriter[w], writer[w].seen, settings, s)
    /\ writer_log' = Append(writer_log, <<"store", w>>)
    /\ UNCHANGED <<install_vars, nodejs_vars, volume_vars, gui_vars,
                   catalog_vars, checker_vars, dialog_vars, settings0, extension>>

WriterNext == \E w \in Writers : LoadConfig(w) \/ StoreConfig(w)

WriterSpec == WriterInit /\ [][WriterNext]_vars

\* ------------------------------------------- the catalog of custom servers
\* A name is a sequence of words and spaces; lower() and replace(" ", "_")
\* work on each of them.
lower(word) ==
    CASE word = "My" -> "my"
      [] word = "Server" -> "server"
      [] word = "Other" -> "other"
      [] OTHER -> word
server_id(name) ==
    [i \in 1..Len(name) |-> IF name[i] = " " THEN "_" ELSE lower(name[i])]
ServerNames ==
    { <<"My", " ", "Server">>, <<"my", " ", "server">>, <<"Other">> }
CustomDescriptors ==
    { [name |-> n, type |-> t, category |-> "custom"] :
         n \in ServerNames, t \in {"npm", "docker"} }
CustomCategory == [name |-> "Custom Servers"]

\* _get_default_servers, in the form of a catalog file.
DefaultServers ==
    CatalogOf("object", TRUE,
        (<<"filesystem">> :> [name |-> <<"Filesystem MCP Server">>, type |-> "npm", category |-> "core"])
        @@ (<<"git">> :> [name |-> <<"Git MCP Server">>, type |-> "npm", category |-> "development"]),
        ("core" :> [name |-> "Core Services"]) @@ ("development" :> [name |-> "Development Tools"]))
\* What config/servers.json may be: missing, unparseable, an object without
\* "servers", or a catalog with servers and categories.
CatalogFiles ==
    { AbsentCatalog,
      CatalogOf("invalid", FALSE, EmptyDict, EmptyDict),
      CatalogOf("object", FALSE, EmptyDict, ("core" :> [name |-> "Core Services"])),
      DefaultServers,
      CatalogOf("object", TRUE,
          (<<"my", "_", "server">> :> [name |-> <<"my", " ", "server">>, type |-> "git", category |-> "custom"])
          @@ (<<"filesystem">> :> DefaultServers.servers[<<"filesystem">>]),
          ("custom" :> [name |-> "Mine"])) }

\* _load_server_definitions: the file when it exists and parses, the
\* defaults otherwise.
load_server_definitions(file) ==
    IF file.kind = "object" THEN file ELSE DefaultServers

\* _save_to_catalog: how it ends ("ok", or "raise" for the exception it
\* logs and raises again) and the file afterwards.
save_to_catalog(server, file, s) ==
    LET catalog == IF file.kind = "absent"
                   THEN CatalogOf("object", TRUE, EmptyDict, EmptyDict)
                   ELSE file
        with_server ==
            [catalog EXCEPT !.servers = (server_id(server.name) :> server) @@ catalog.servers]
        with_category ==
            IF "custom" \in DOMAIN with_server.categories THEN with_server
            ELSE [with_server EXCEPT
                     !.categories = ("custom" :> CustomCategory) @@ with_server.categories]
    IN  IF file.kind = "invalid" \/ ~catalog.has_servers \/ s = "open_failed"
        THEN [out |-> "raise", file |-> file]
        ELSE IF s = "dump_failed"
             THEN [out |-> "raise", file |-> CatalogOf("invalid", FALSE, EmptyDict, EmptyDict)]
             ELSE [out |-> "ok", file |-> with_category]

MaxSaves == 2

CatalogInit ==
    /\ platform_system = "Linux"
    /\ files = [e \in {"cline", "roo"} |-> AbsentFile]
    /\ files0 = files
    /\ InstallIdle
    /\ NodejsIdle
    /\ VolumeIdle
    /\ GuiIdle
    /\ WriterIdle
    /\ CheckerIdle
    /\ DialogIdle
    /\ catalog_file \in CatalogFiles
    /\ catalog_before = catalog_file
    /\ saves = <<>>

SaveToCatalog ==
    /\ Len(saves) < MaxSaves
    /\ \E server \in CustomDescriptors, s \in SaveOutcomes :
          LET r == save_to_catalog(server, catalog_file, s)
          IN  /\ catalog_file' = r.file
              /\ saves' = Append(saves, [server |-> server, out |-> r.out])
    /\ catalog_before' = catalog_file
    /\ UNCHANGED <<install_vars, nodejs_vars, volume_vars, gui_vars, writer_vars,
                   checker_vars, dialog_vars>>

CatalogNext == SaveToCatalog

CatalogSpec == CatalogInit /\ [][CatalogNext]_vars

\* ================================================================ claims
Supported == {"npm", "git", "python", "docker"}
TypeOf(cfg) == Get(cfg, "type", "unknown")
RunIndices == {i \in 1..Len(trace) : trace[i].op = "run"}
IdeIndices == {i \in 1..Len(trace) : trace[i].op = "ide"}
Invoked(cmd) == {i \in RunIndices : trace[i].cmd = cmd}
InvokedLike(prefix) == {i \in RunIndices : StartsWith(trace[i].cmd, prefix)}
Called == pc # "idle"

\* C2: a descriptor whose type is none of npm, git, python, docker (or that
\* has no type) makes install_server return (False, "Unsupported server
\* type: <type>") and no subprocess is ever invoked for it.
C2_UnsupportedType ==
    (Called /\ TypeOf(server_config) \notin Supported) =>
        /\ RunIndices = {}
        /\ pc = "done" =>
              result = Value(FALSE, <<"Unsupported server type: ", TypeOf(server_config)>>)

C2_Witness ==
    /\ pc = "done"
    /\ "type" \notin DOMAIN server_config
    /\ "package" \in DOMAIN server_config


\* C1: install_server never raises: whatever the subprocess outcomes, a call
\* in progress can always take its next step, and it ends with a (bool,
\* message) pair; an exception that escaped a backend would be returned as
\* (False, "Installation failed: <message>").
C1_NeverRaises ==
    /\ pc \notin {"idle", "done"} => ENABLED Step
    /\ pc = "done" =>
          /\ result.kind = "value"
          /\ result.ok \in BOOLEAN
          /\ Len(result.msg) >= 1
          /\ ret.kind = "raise" => result = Value(FALSE, <<"Installation failed: ">> \o ret.msg)

C1_Witness ==
    /\ pc = "done"
    /\ result.kind = "value"
    /\ \E i \in RunIndices : trace[i].out = "error"

\* C3: for a docker descriptor with an npm fallback whose docker path has
\* failed, the npm backend is attempted once, after the docker backend, and
\* its result is the result of install_server.
DockerAttempted == \E i \in 1..Len(trace) : trace[i].op = "probe"
NpmProbes == Invoked(NpmVersionCmd)
C3_FallbackTried ==
    ( /\ pc = "done"
      /\ DockerAttempted
      /\ Get(server_config, "image", <<>>) # <<>>
      /\ Get(Get(server_config, "fallback", EmptyDict), "type", "unknown") = "npm"
      /\ (~ret.ok \/ NpmProbes # {}) )
    => /\ NpmProbes # {}
       /\ Cardinality(InvokedLike(<<"npm", "install", "-g">>)) <= 1
       /\ \A i \in NpmProbes : \A j \in 1..Len(trace) : trace[j].op = "probe" => j < i
       /\ result = ret

\* C4: when an installation ends in the IDE configuration step (every
\* execute step before it has succeeded), install_server returns success
\* whatever the writer did.
C4_ConfigureNeverFails ==
    (pc = "done" /\ trace # <<>> /\ trace[Len(trace)].op = "ide") => result.ok

\* C5: a python descriptor with neither package nor repository is refused
\* with "No package or repository specified for Python server" and no
\* subprocess is invoked for it.
C5_PythonNoSource ==
    ( /\ Called
      /\ TypeOf(server_config) = "python"
      /\ Get(server_config, "package", "") = ""
      /\ Get(server_config, "repository", "") = "" )
    => /\ RunIndices = {}
       /\ pc = "done" =>
             result = Value(FALSE, <<"No package or repository specified for Python server">>)

\* C6: docker descriptor with image mcp-filesystem:latest, Docker available,
\* image not present locally, no Dockerfile at docker/Dockerfile.filesystem.
FilesystemImage == <<"mcp-", "filesystem", ":", "latest">>
C6_Case ==
    /\ pc = "done"
    /\ TypeOf(server_config) = "docker"
    /\ Get(server_config, "image", <<>>) = FilesystemImage
    /\ \E i \in Invoked(DockerInspectCmd(FilesystemImage)) : trace[i].out # "ok"
    /\ InvokedLike(<<"docker", "build">>) = {}

\* C6 as claimed: the result is (False, "No Dockerfile found for image:
\* mcp-filesystem") and docker run is never invoked.
C6_Original ==
    C6_Case =>
        /\ result = Value(FALSE, <<"No Dockerfile found for image: ", "mcp-", "filesystem">>)
        /\ InvokedLike(<<"docker", "run">>) = {}

\* C6 amended: the result is (False, "Dockerfile not found: <path of
\* docker/Dockerfile.filesystem>") and docker run is never invoked.
C6_DockerfileNotFound ==
    C6_Case =>
        /\ result = Value(FALSE, <<"Dockerfile not found: ", "docker", "Dockerfile.filesystem">>)
        /\ InvokedLike(<<"docker", "run">>) = {}

C6_Witness == C6_Case /\ ~result.ok

\* C7: npm descriptor with a package, probe exits 0, install exits 0: one
\* install command, the result is (True, "Successfully installed <name>"),
\* and the writer is invoked once for each supported extension and for no
\* other extension.
C7_Case ==
    /\ pc = "done"
    /\ TypeOf(server_config) = "npm"
    /\ Get(server_config, "package", "") # ""
    /\ trace # <<>>
    /\ trace[1] = RunEvent(NpmVersionCmd, "ok")
    /\ \E i \in Invoked(NpmInstallCmd(Get(server_config, "package", ""))) : trace[i].out = "ok"
C7_NpmSuccess ==
    C7_Case =>
        /\ Cardinality(InvokedLike(<<"npm", "install">>)) = 1
        /\ result = NpmSuccess(server_config)
        /\ \A e \in extension_configs :
              Cardinality({i \in IdeIndices : trace[i].cmd = <<e>>}) = 1
        /\ \A i \in IdeIndices : trace[i].cmd[1] \in extension_configs

\* C8: the steps of one call occur in the order probe, remediate, execute,
\* configure; no execute subprocess runs before a probe has completed;
\* remediation is attempted only after a failed probe and never after a
\* successful one.
IsProbeResult(e) ==
    \/ e.op = "probe"
    \/ e.op = "run" /\ e.cmd \in {NpmVersionCmd, GitVersionCmd,
                                   PythonVersionCmd("python"), PythonVersionCmd("python3")}
IsProbe(e) ==
    \/ IsProbeResult(e)
    \/ e.op = "run" /\ e.cmd \in {<<"docker", "--version">>, <<"docker", "info">>}
IsRemediate(e) == e.op = "run" /\ e.cmd[1] \in {"winget", "powershell", "cmd", "sudo"}
IsConfigure(e) == e.op = "ide"
IsExecute(e) == e.op = "run" /\ ~IsProbe(e) /\ ~IsRemediate(e)
\* A probe repeated after a remediation belongs to the remediation.
PhaseOf(i) ==
    CASE IsConfigure(trace[i]) -> 4
      [] IsExecute(trace[i]) -> 3
      [] IsRemediate(trace[i]) -> 2
      [] OTHER -> IF \E j \in 1..(i - 1) : IsRemediate(trace[j]) THEN 2 ELSE 1
C8_StepOrder ==
    /\ \A i \in 1..Len(trace) : \A j \in i..Len(trace) : PhaseOf(i) <= PhaseOf(j)
    /\ \A i \in 1..Len(trace) :
          IsExecute(trace[i]) => \E j \in 1..(i - 1) : IsProbeResult(trace[j])
    /\ \A i \in 1..Len(trace) :
          IsRemediate(trace[i]) =>
              /\ \E j \in 1..(i - 1) : IsProbeResult(trace[j])
              /\ \A j \in 1..(i - 1) : IsProbeResult(trace[j]) => trace[j].out # "ok"

\* C9: a subprocess that timed out makes install_server return failure with
\* one of the backends' "... timed out" messages, and the command is not
\* invoked again.
TimedOutMessages ==
    { <<"Installation timed out">>, <<"Git clone timed out">>,
      <<"Python installation timed out">>, <<"Docker pull timed out">>,
      <<"Docker build timed out">>, <<"Docker container start timed out">> }
C9_TimeoutReported ==
    pc = "done" =>
        \A i \in RunIndices :
            trace[i].out = "timeout" =>
                /\ ~result.ok
                /\ result.msg \in TimedOutMessages
                /\ \A j \in (i + 1)..Len(trace) : trace[j].cmd # trace[i].cmd

\* C10: a docker descriptor without image, an npm descriptor without package
\* and a git descriptor without repository are refused at once: the result is
\* the failure naming the missing field and nothing has been invoked.
MissingFieldMsg(cfg) ==
    CASE TypeOf(cfg) = "docker" -> <<"No Docker image specified">>
      [] TypeOf(cfg) = "npm" -> <<"No package specified">>
      [] OTHER -> <<"No repository URL specified">>
MissingField(cfg) ==
    \/ TypeOf(cfg) = "docker" /\ Get(cfg, "image", <<>>) = <<>>
    \/ TypeOf(cfg) = "npm" /\ Get(cfg, "package", "") = ""
    \/ TypeOf(cfg) = "git" /\ Get(cfg, "repository", "") = ""
C10_MissingFieldRejected ==
    (Called /\ MissingField(server_config)) =>
        /\ trace = <<>>
        /\ pc = "done" => result = Value(FALSE, MissingFieldMsg(server_config))

C10_Witness ==
    /\ pc = "done"
    /\ TypeOf(server_config) = "docker"
    /\ "image" \notin DOMAIN server_config
    /\ ~result.ok

\* C13: an image is a local-build image exactly when its name starts with
\* "mcp-" and contains ":"; a local-build image is inspected and then reused
\* or built, never pulled; every other image is pulled, never inspected or
\* built; the handling of the pull's result is reached only after a pull.
LocalImage(image) ==
    /\ image # <<>>
    /\ image[1] = "mcp-"
    /\ \E i \in 1..Len(image) : image[i] = ":"
DockerUp ==
    \E i \in 1..Len(trace) :
        /\ trace[i] = ProbeEvent("docker", "ok")
        /\ \A j \in (i + 1)..Len(trace) : trace[j].op # "probe"
Pulls == InvokedLike(<<"docker", "pull">>)
Builds == InvokedLike(<<"docker", "build">>)
Inspects == InvokedLike(<<"docker", "image", "inspect">>)
C13_LocalBuildOrPull ==
    /\ is_local_build(<<"mcp-", "filesystem", ":", "latest">>)
    /\ ~is_local_build(<<"mcr.microsoft.com/playwright/mcp">>)
    /\ ~is_local_build(<<"nginx", ":", "latest">>)
    /\ (Called /\ TypeOf(server_config) = "docker") =>
          LET image == Get(server_config, "image", <<>>)
          IN  /\ LocalImage(image) =>
                    /\ Pulls = {}
                    /\ (pc = "done" /\ DockerUp) => Inspects # {}
                    /\ \A i \in Builds : \E j \in Inspects : j < i /\ trace[j].out # "ok"
                    /\ InvokedLike(<<"docker", "run">>) # {} =>
                          \E i \in Inspects \cup Builds : trace[i].out = "ok"
              /\ ~LocalImage(image) =>
                    /\ Builds = {}
                    /\ Inspects = {}
                    /\ (pc = "done" /\ DockerUp) => Pulls # {}
              /\ (pc = "done" /\ result.msg[1] \in {"docker pull failed: ", "Docker pull timed out"}) =>
                    \E i \in Pulls : trace[i].out \in {"nonzero", "timeout"}

C13_Witness ==
    /\ pc = "done"
    /\ Get(server_config, "image", <<>>) = <<"mcp-", "filesystem">>
    /\ \E i \in Pulls : trace[i].out = "ok"

\* C16: the IDE settings writer runs only after a successful install: when
\* install_server returns (False, ...), the call has added or changed no
\* server entry in any settings file.
C16_NoEntryOnFailure ==
    (pc = "done" /\ ~result.ok) =>
        \A e \in DOMAIN files : files[e].servers = files0[e].servers

\* C18: in the npm backend on Windows, when npm is absent at the probe
\* (command not found, or npm --version exits nonzero), Node.js remediation
\* is attempted exactly once and npm is re-probed exactly once; the install
\* command runs only if the re-probe succeeded, and otherwise the backend
\* returns failure with guidance.
NpmAbsentAtProbe ==
    /\ pc = "done"
    /\ TypeOf(server_config) = "npm"
    /\ platform_system = "Windows"
    /\ trace # <<>>
    /\ trace[1].cmd = NpmVersionCmd
    /\ trace[1].out \in {"notfound", "nonzero"}
NpmInstalls == InvokedLike(<<"npm", "install", "-g">>)
C18_RemediateAndReprobe ==
    NpmAbsentAtProbe =>
        /\ Cardinality(Invoked(WingetNodeCmd)) = 1
        /\ Cardinality(Invoked(NpmVersionCmd)) = 2
        /\ NpmInstalls # {} =>
              \E i \in Invoked(NpmVersionCmd) : i > 1 /\ trace[i].out = "ok"
        /\ NpmInstalls = {} => ~result.ok

\* C19: in the docker backend docker run is invoked only after the image is
\* available (image inspect, build or pull exited 0); the stop and the
\* remove of the container named "mcp-" + the lower-cased, dashed server name
\* are attempted before docker run (the remove unless the stop raised) and
\* never after it; and whatever the stop and the remove did, docker run is
\* still invoked and alone decides the result of the step.
Runs == InvokedLike(<<"docker", "run">>)
Stops == Invoked(<<"docker", "stop", "mcp-", "filesystem-mcp-server">>)
Removes == Invoked(<<"docker", "rm", "mcp-", "filesystem-mcp-server">>)
C20_CloneDecides ==
    ( /\ pc = "done"
      /\ TypeOf(server_config) = "git"
      /\ \E i \in InvokedLike(<<"git", "clone">>) : trace[i].out = "ok" )
    => result = GitSuccess(server_config)

\* C14: install_server called twice in sequence with the same npm descriptor,
\* npm present and the install command exiting 0 both times.
InstallExitedZero(tr) ==
    \E i \in 1..Len(tr) :
        /\ tr[i].op = "run"
        /\ StartsWith(tr[i].cmd, <<"npm", "install", "-g">>)
        /\ tr[i].out = "ok"
\* A write of a supported extension's settings file failed (open or dump).
SaveFailed(tr) ==
    \E i \in 1..Len(tr) :
        /\ tr[i].op = "ide"
        /\ tr[i].cmd[1] \in extension_configs
        /\ tr[i].out = "false"
C14_Case ==
    /\ pc = "done"
    /\ first.made
    /\ TypeOf(server_config) = "npm"
    /\ InstallExitedZero(first.trace)
    /\ InstallExitedZero(trace)

IsPlaceholder(token) == token \in WorkspaceForms \cup DataForms
PositionIn(c, cmds) == CHOOSE k \in 1..Len(cmds) : cmds[k] = c
CandidateIndices(log, cmds) ==
    {i \in 1..Len(log) : log[i].op = "run" /\ InSeq(log[i].cmd, cmds)}
\* The candidates of cmds recorded in log were invoked in list order, none
\* after one of them exited 0, and each directly after its predecessor.
TriedInOrder(log, cmds) ==
    LET tried == CandidateIndices(log, cmds)
    IN  \A i \in tried, j \in tried :
           i < j => PositionIn(log[i].cmd, cmds) < PositionIn(log[j].cmd, cmds)
StopsAtFirstSuccess(log, cmds) ==
    LET tried == CandidateIndices(log, cmds)
    IN  \A i \in tried, j \in tried : log[i].out = "ok" => j <= i

\* C17: a remediation (Node.js through _install_nodejs, Docker through
\* _install_docker) invokes its candidate install commands in list order,
\* invokes none after one of them has exited 0, and always ends by
\* returning a result, whatever the outcomes of the candidates were.
C17_StopAtFirstSuccess ==
    /\ TriedInOrder(nodejs_log, winget_commands)
    /\ StopsAtFirstSuccess(nodejs_log, winget_commands)
    /\ TriedInOrder(trace, DockerInstallCommands)
    /\ StopsAtFirstSuccess(trace, DockerInstallCommands)
    /\ nodejs_pc = "done" => nodejs_result # NoResult

\* The discovery has ended: its dict was handed back, or it raised.
DiscoveryEnded == disc_pc \in {"done", "raised"}
\* What the discovery produced: discover_servers returns its dict, the
\* dialog's thread stores it.
Produced == IF disc_caller = "dialog" THEN discovered_servers ELSE discovered
OnlineSources == Sources \ {"local"}
Queried(source) == {e \in gui_log : e.op = "http" /\ e.arg = source}
\* The source failed: its request raised, was answered with another status
\* than 200, or its handler ran; for the local catalogue, reading it raised.
SourceFailed(source) ==
    IF source = "local"
    THEN local_servers(self_servers).raised
    ELSE \E e \in gui_log :
            /\ e.arg = source
            /\ \/ e.op = "warning"
               \/ e.op = "http" /\ e.out # "200"

\* C11: a discovery that has ended produced a dict with exactly the keys
\* local, github, npm and official; every online source was queried,
\* whatever happened to the others; and each source that failed has an
\* empty list.
C11_DiscoveryNeverAborts ==
    DiscoveryEnded =>
        /\ disc_pc = "done"
        /\ DOMAIN Produced = Sources
        /\ \A s \in OnlineSources : Queried(s) # {}
        /\ \A s \in Sources : SourceFailed(s) => Produced[s] = <<>>

Blocking == {"subprocess", "http"}
\* C12: the UI thread makes no subprocess invocation and no network call,
\* and every widget mutation happens on the UI thread (a worker schedules
\* it with after instead of making it itself).
C12_UiThreadDelegates ==
    \A e \in gui_log :
        /\ e.thread = "ui" => e.op \notin Blocking
        /\ e.op = "widget" => e.thread = "ui"

Absent == {"nonzero", "notfound"}
PythonProbes(python) == Invoked(PythonVersionCmd(python))
\* C21: in the python backend, when `python` is absent (not found, or its
\* --version exits nonzero) python3 is probed; when that probe succeeds the
\* pip install runs with python3; and "Python is not available" is returned
\* only when both probes failed.
C21_Python3Fallback ==
    (pc = "done" /\ TypeOf(server_config) = "python") =>
        LET primary == PythonProbes("python")
            second == PythonProbes("python3")
            absent == \E i \in primary : trace[i].out \in Absent
            found3 == \E i \in second : trace[i].out = "ok"
            source == \/ Get(server_config, "package", "") # ""
                      \/ Get(server_config, "repository", "") # ""
        IN  /\ absent => second # {}
            /\ (absent /\ found3 /\ source) =>
                  Invoked(PipInstallCmd("python3", server_config)) # {}
            /\ result.msg = <<"Python is not available. Please install Python first.">> =>
                  /\ absent
                  /\ \E i \in second : trace[i].out \in Absent

FailFast == {"npm", "git", "python"}
\* The install command of a backend: npm install -g, git clone, pip install.
IsInstallCommand(cmd) ==
    \/ StartsWith(cmd, <<"npm", "install", "-g">>)
    \/ StartsWith(cmd, <<"git", "clone">>)
    \/ Len(cmd) >= 4 /\ SubSeq(cmd, 2, 4) = <<"-m", "pip", "install">>
InstallCommands == {i \in RunIndices : IsInstallCommand(trace[i].cmd)}
FallbackPackages == {Get(f, "package", "") : f \in Fallbacks}
\* C22: for an npm, git or python descriptor the install command of the
\* backend is invoked at most once per call, and no command of the call
\* names what the descriptor's fallback field holds.
C22_NoRecoveryOutsideDocker ==
    (Called /\ TypeOf(server_config) \in FailFast) =>
        /\ Cardinality(InstallCommands) <= 1
        /\ \A i \in RunIndices :
              \A p \in FallbackPackages : ~InSeq(p, trace[i].cmd)
\* A call for such a descriptor with a fallback whose install command failed.
C22_Witness ==
    /\ pc = "done"
    /\ TypeOf(server_config) \in FailFast
    /\ "fallback" \in DOMAIN server_config
    /\ \E i \in InstallCommands : trace[i].out # "ok"
    /\ ~result.ok

PositionOf(step, w) ==
    CHOOSE i \in 1..Len(writer_log) : writer_log[i] = <<step, w>>
HoldsEntry(file, server) ==
    /\ server["name"] \in DOMAIN file.servers
    /\ file.servers[server["name"]] = ServerEntry(server)
\* Call v read the file before call w wrote it, and wrote after it.
Overtaken(w, v) ==
    /\ writer[w].pc = "done"
    /\ writer[v].pc = "done"
    /\ PositionOf("load", v) < PositionOf("store", w)
    /\ PositionOf("store", w) < PositionOf("store", v)
\* C23: two calls for different servers are not serialised: when the
\* second read the file before the first wrote it and both return True,
\* the file afterwards holds the second's entry and not the first's.
C23_LostUpdate ==
    \A w \in Writers, v \in Writers :
        (w # v /\ Overtaken(w, v) /\ writer[w].out = "true" /\ writer[v].out = "true") =>
            /\ ~HoldsEntry(settings, ServerOfWriter[w])
            /\ HoldsEntry(settings, ServerOfWriter[v])
\* Both calls returned True and the file holds the entry of only one.
C23_Witness ==
    /\ \A w \in Writers : writer[w].pc = "done" /\ writer[w].out = "true"
    /\ Overtaken(1, 2)
    /\ HoldsEntry(settings, ServerOfWriter[2])
    /\ ~HoldsEntry(settings, ServerOfWriter[1])

\* The only call made so far is w's, and it has come to its end.
SoleCall(w) ==
    /\ writer[w].pc = "done"
    /\ \A v \in Writers \ {w} : writer[v].pc = "idle"
\* C24: a call of add_server_to_extension on its own leaves every entry of
\* mcpServers under another name and every other top-level key of the file
\* as they were, whatever the file held before, and after a True return
\* the map holds the server's command, args and env under its name.
C24_OnlyOwnEntry ==
    \A w \in Writers :
        SoleCall(w) =>
            LET name == ServerOfWriter[w]["name"]
            IN  /\ \A n \in DOMAIN settings0.servers \ {name} :
                      /\ n \in DOMAIN settings.servers
                      /\ settings.servers[n] = settings0.servers[n]
                /\ DOMAIN settings.servers \subseteq DOMAIN settings0.servers \cup {name}
                /\ settings.other = settings0.other
                /\ writer[w].out = "true" => HoldsEntry(settings, ServerOfWriter[w])

LastSave == saves[Len(saves)]
Saved == saves # <<>> /\ LastSave.out = "ok"
\* C26: after a save that went through, the catalog (what
\* _load_server_definitions gives) holds the descriptor under the id made
\* from its name, and every other server entry and every category that the
\* catalog had before the save is as it was.
C26_MergeById ==
    Saved =>
        LET before == load_server_definitions(catalog_before)
            after == load_server_definitions(catalog_file)
            id == server_id(LastSave.server.name)
        IN  /\ id \in DOMAIN after.servers
            /\ after.servers[id] = LastSave.server
            /\ \A other \in DOMAIN before.servers \ {id} :
                  /\ other \in DOMAIN after.servers
                  /\ after.servers[other] = before.servers[other]
            /\ \A c \in DOMAIN before.categories :
                  /\ c \in DOMAIN after.categories
                  /\ after.categories[c] = before.categories[c]

IsDockerRemediation(e) ==
    /\ e.op = "run"
    /\ \/ InSeq(e.cmd, DockerInstallCommands)
       \/ InSeq(e.cmd, DockerStartCommands)
       \/ e.cmd = SystemctlCmd
DockerProbeCommands == { <<"docker", "--version">>, <<"docker", "info">> }
IsInstallerCommand(cmd) == Len(cmd) >= 2 /\ cmd[2] = "install"

\* C25: an environment probe (check_nodejs, check_winget, check_docker)
\* spawns only version and info queries: it never runs an installer
\* command, and a command of it that timed out is the last command the
\* probe runs.
C25_ProbesOnlyQuery ==
    probe # "none" =>
        /\ \A i \in 1..Len(ProbeCalls) : ~IsInstallerCommand(ProbeCalls[i].cmd)
        /\ \A i \in 1..Len(ProbeCalls) :
              ProbeCalls[i].out = "timeout" => i = Len(ProbeCalls)

ChecksRun == [i \in 1..Len(pass_log) |-> pass_log[i].check]
StatusOf(o) == o = "pass"

\* C30: when check_all has returned, the results mapping has an entry with a
\* boolean status for each of the eight checks; every check ran, in order,
\* whether or not an earlier one raised, and a check that raised left a
\* status-False entry; get_summary then says "failed" exactly when a
\* critical check is False, "passed" exactly when every check is True, and
\* "partial" otherwise.
C30_CheckAllAndSummary ==
    check_all_pc = "returned" =>
        /\ DOMAIN results = {checks[i] : i \in 1..Len(checks)}
        /\ \A k \in DOMAIN results : results[k]["status"] \in BOOLEAN
        /\ ChecksRun = checks
        /\ \A i \in 1..Len(pass_log) :
              results[pass_log[i].check]["status"] = StatusOf(pass_log[i].out)
        /\ summary # NoSummary =>
              LET critical == {critical_checks[i] : i \in 1..Len(critical_checks)}
                  some_critical_false == \E c \in critical : ~results[c]["status"]
                  all_true == \A k \in DOMAIN results : results[k]["status"]
              IN  /\ summary.status \in {"failed", "passed", "partial"}
                  /\ summary.status = "failed" <=> some_critical_false
                  /\ summary.status = "passed" <=> all_true
                  /\ summary.status = "partial" <=> (~some_critical_false /\ ~all_true)

\* A check before the last raised, the pass went on to the end, and the
\* summary of the pass is "partial".
C30_Witness ==
    /\ check_all_pc = "returned"
    /\ \E i \in 1..(Len(pass_log) - 1) : pass_log[i].out = "raise"
    /\ summary.status = "partial"

InFlight == {t \in 1..Len(install_threads) : install_threads[t].pc = "running"}
Succeeded == {t \in 1..Len(install_threads) : install_threads[t].pc = "succeeded"}
EntryButtons == {b \in 1..Len(install_buttons) : install_buttons[b].exists}

\* C28: at most one installation of the server is in flight at any time:
\* while an install_server call of the entry is running the entry's
\* Install button is disabled, and it is not enabled again after an
\* installation of the server has succeeded, whatever clicks, list
\* refreshes and completions happen.
C28_OneInstallInFlight ==
    /\ Cardinality(InFlight) <= 1
    /\ \A b \in EntryButtons :
          install_buttons[b].state = "normal" => (InFlight = {} /\ Succeeded = {})

RunInProgress == dlg_runs > 0 /\ ~completed.ran
InListOrder(rs) == \A i \in 1..Len(rs) : i <= Len(dlg_servers) /\ rs[i].server = dlg_servers[i]

\* C29: the InstallationDialog starts at most one run; the run installs the
\* servers one at a time in list order on its one thread; when
\* _installation_complete runs, self.results holds one entry per server in
\* list order and successful + failed is the number of servers; and the
\* dialog's window exists as long as the run is in progress.
C29_OneOrderedRun ==
    /\ dlg_runs <= 1
    /\ InListOrder(dlg_results)
    /\ run_pc = "install_server" => current_index = Len(dlg_results)
    /\ completed.ran =>
          /\ Len(completed.results) = Len(dlg_servers)
          /\ InListOrder(completed.results)
          /\ dlg_open => completed.successful + completed.failed = Len(dlg_servers)
    /\ RunInProgress => dlg_open

====
